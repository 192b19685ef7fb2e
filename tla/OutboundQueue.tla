---------------------------- MODULE OutboundQueue ----------------------------
(***************************************************************************)
(* The outbound queue of server/src/federation/outbound_queue.rs: one FIFO *)
(* per peer, drained by one long-lived worker per peer, filled by any      *)
(* number of concurrent enqueue() callers, all under one mutex.            *)
(*                                                                         *)
(* The loops that run while the mutex is held (eviction in enqueue(), the  *)
(* pops of take_batch()) are one step per iteration, and `mutex` keeps     *)
(* every other critical section out meanwhile.  What enqueue() and         *)
(* drop_peer() do after the unlock (spawn, notify_one) are steps of their  *)
(* own, because other threads run in between.                              *)
(*                                                                         *)
(* Objects carry an id given in the order they enter the mutex; staleness  *)
(* (enqueued_at older than object_max_age) is membership in `expired`.     *)
(***************************************************************************)
EXTENDS Integers, Sequences, FiniteSets, Functions

CONSTANTS
  Peers,           \* instance public keys objects are sent to
  Callers,         \* threads that call enqueue() and drop_peer()
  Sizes,           \* wire_bytes.len() of the objects
  Routes,          \* the (path, body_key) pairs: content and edges
  TotalBytes,      \* config.total_bytes
  BytesPerPeer,    \* config.bytes_per_peer
  ObjectsPerPeer,  \* config.objects_per_peer
  MaxBatch,        \* config.max_batch
  MaxObjects,      \* bound: enqueue() calls in a behaviour
  NoOne            \* nobody holds the mutex / no target

ASSUME OutboundConfig ==
  /\ Cardinality(Peers) \in Nat /\ ExistsBijection(1..Cardinality(Peers), Peers)
  /\ Sizes \subseteq Nat
  /\ TotalBytes \in Nat /\ BytesPerPeer \in Nat
  /\ ObjectsPerPeer \in Nat \ {0} /\ MaxBatch \in Nat \ {0}
  /\ MaxObjects \in Nat
  /\ NoOne \notin Peers \cup Callers
  /\ Peers \cap Callers = {}

VARIABLES
  mutex,     \* holder of `inner`: NoOne, a caller, or a peer (its worker)
  entry,     \* entry[p]: the HashMap holds a PeerQueue for p
  items,     \* PeerQueue.items
  bytes,     \* PeerQueue.bytes
  total,     \* OutboundQueuesState.total_bytes
  spawned,   \* PeerQueue.worker_spawned
  inFlight,  \* PeerQueue.in_flight
  stopped,   \* PeerQueue.stopped
  permit,    \* the permit stored in PeerQueue.wake
  timers,    \* backoff sleeps of p still to call wake.notify_one()
  worker,    \* where the drain worker of p is; "none": no worker runs
  batch,     \* the batch the worker of p holds
  caller,    \* where a caller is inside enqueue() or drop_peer()
  target,    \* the peer the caller works on
  object,    \* the object the caller brings
  live,      \* the caller's clone of wake belongs to the current entry
  next,      \* id of the next object
  expired,   \* ids older than object_max_age
  received,  \* received[p]: ids that reached peer p
  settled    \* ids that left the queue for a reason the code names

queueVars  == <<entry, items, bytes, total, spawned, inFlight, stopped>>
wakeVars   == <<permit, timers>>
workerVars == <<worker, batch>>
callerVars == <<caller, target, object, live>>
historyVars == <<next, expired, received, settled>>
vars == <<mutex, queueVars, wakeVars, workerVars, callerVars, historyVars>>

QueuedObject == [id : 1..MaxObjects, size : Sizes, route : Routes]

ASSUME NoObject == NoOne \notin QueuedObject

CallerStates == {"idle", "admit", "spawn", "notify"}
WorkerStates == {"none", "parked", "woken", "check", "take", "taking",
                 "idle", "sending", "requeue", "requeueing", "clear", "arm"}

Ids(s) == {s[i].id : i \in 1..Len(s)}
SaturatingSub(a, b) == IF a > b THEN a - b ELSE 0
Free == mutex = NoOne

Init ==
  /\ mutex = NoOne
  /\ entry = [p \in Peers |-> FALSE]
  /\ items = [p \in Peers |-> <<>>]
  /\ bytes = [p \in Peers |-> 0]
  /\ total = 0
  /\ spawned = [p \in Peers |-> FALSE]
  /\ inFlight = [p \in Peers |-> FALSE]
  /\ stopped = [p \in Peers |-> FALSE]
  /\ permit = [p \in Peers |-> FALSE]
  /\ timers = [p \in Peers |-> 0]
  /\ worker = [p \in Peers |-> "none"]
  /\ batch = [p \in Peers |-> <<>>]
  /\ caller = [c \in Callers |-> "idle"]
  /\ target = [c \in Callers |-> NoOne]
  /\ object = [c \in Callers |-> NoOne]
  /\ live = [c \in Callers |-> FALSE]
  /\ next = 1
  /\ expired = {}
  /\ received = [p \in Peers |-> {}]
  /\ settled = {}

-----------------------------------------------------------------------------
(* enqueue() *)

\* Lock, and insert PeerQueue::new() when the peer has no entry.  The fields
\* of an absent entry are kept at their PeerQueue::new() values.
EnqueueLock(c, p, sz, rt) ==
  /\ Free
  /\ caller[c] = "idle"
  /\ next <= MaxObjects
  /\ mutex' = c
  /\ entry' = [entry EXCEPT ![p] = TRUE]
  /\ caller' = [caller EXCEPT ![c] = "admit"]
  /\ target' = [target EXCEPT ![c] = p]
  /\ object' = [object EXCEPT ![c] = [id |-> next, size |-> sz, route |-> rt]]
  /\ live' = [live EXCEPT ![c] = TRUE]
  /\ next' = next + 1
  /\ UNCHANGED <<items, bytes, total, spawned, inFlight, stopped, wakeVars,
                 workerVars, expired, received, settled>>

\* Leave the critical section and enqueue() without queueing the object.
EnqueueReturn(c) ==
  /\ mutex' = NoOne
  /\ caller' = [caller EXCEPT ![c] = "idle"]
  /\ target' = [target EXCEPT ![c] = NoOne]
  /\ object' = [object EXCEPT ![c] = NoOne]
  /\ live' = [live EXCEPT ![c] = FALSE]

\* pop_front of q with both counters reduced.
PopFront(q) ==
  /\ items' = [items EXCEPT ![q] = Tail(@)]
  /\ bytes' = [bytes EXCEPT ![q] = SaturatingSub(@, Head(items[q]).size)]
  /\ total' = SaturatingSub(total, Head(items[q]).size)

\* The while condition of step 1.
OverPeerCap(c) ==
  LET p == target[c] IN
  /\ items[p] # <<>>
  /\ \/ Len(items[p]) + 1 > ObjectsPerPeer
     \/ bytes[p] + object[c].size > BytesPerPeer

\* Step 1: drop the oldest object of this peer.
DropOldestOwn(c) ==
  /\ caller[c] = "admit"
  /\ OverPeerCap(c)
  /\ PopFront(target[c])
  /\ settled' = settled \cup {Head(items[target[c]]).id}
  /\ UNCHANGED <<mutex, entry, spawned, inFlight, stopped, wakeVars, workerVars,
                 callerVars, next, expired, received>>

\* The object alone exceeds the per-peer cap, and the queue is empty by now.
TooBigForPeer(c) == items[target[c]] = <<>> /\ object[c].size > BytesPerPeer

RejectOversize(c) ==
  /\ caller[c] = "admit"
  /\ TooBigForPeer(c)
  /\ EnqueueReturn(c)
  /\ settled' = settled \cup {object[c].id}
  /\ UNCHANGED <<queueVars, wakeVars, workerVars, next, expired, received>>

FitsGlobal(c) == total + object[c].size <= TotalBytes

\* The while condition of step 2, reached when step 1 is through.
OverGlobalCap(c) ==
  /\ ~OverPeerCap(c)
  /\ ~TooBigForPeer(c)
  /\ ~FitsGlobal(c)

\* Step 2: drop the oldest object of a largest queue.
EvictLargest(c, q) ==
  /\ caller[c] = "admit"
  /\ OverGlobalCap(c)
  /\ items[q] # <<>>
  /\ \A r \in Peers : items[r] # <<>> => bytes[r] <= bytes[q]
  /\ PopFront(q)
  /\ settled' = settled \cup {Head(items[q]).id}
  /\ UNCHANGED <<mutex, entry, spawned, inFlight, stopped, wakeVars, workerVars,
                 callerVars, next, expired, received>>

\* Step 2 with nothing left to evict.
RejectGlobal(c) ==
  /\ caller[c] = "admit"
  /\ OverGlobalCap(c)
  /\ \A q \in Peers : items[q] = <<>>
  /\ EnqueueReturn(c)
  /\ settled' = settled \cup {object[c].id}
  /\ UNCHANGED <<queueVars, wakeVars, workerVars, next, expired, received>>

\* Mutant: worker_spawned is not set under the lock.
MarkSpawned_Late(p) == UNCHANGED spawned

MarkSpawned(p) == spawned' = [spawned EXCEPT ![p] = TRUE]

\* Step 3: push_back, decide under the lock whether to spawn, unlock.
Push(c) ==
  LET p == target[c] IN
  /\ caller[c] = "admit"
  /\ ~OverPeerCap(c)
  /\ ~TooBigForPeer(c)
  /\ FitsGlobal(c)
  /\ items' = [items EXCEPT ![p] = Append(@, object[c])]
  /\ bytes' = [bytes EXCEPT ![p] = @ + object[c].size]
  /\ total' = total + object[c].size
  /\ MarkSpawned(p)
  /\ caller' = [caller EXCEPT ![c] = IF spawned[p] THEN "notify" ELSE "spawn"]
  /\ object' = [object EXCEPT ![c] = NoOne]
  /\ mutex' = NoOne
  /\ UNCHANGED <<entry, inFlight, stopped, wakeVars, workerVars, target, live,
                 historyVars>>

\* After the unlock: spawn_drain_worker().
Spawn(c) ==
  /\ caller[c] = "spawn"
  /\ worker' = [worker EXCEPT ![target[c]] = "parked"]
  /\ caller' = [caller EXCEPT ![c] = "notify"]
  /\ UNCHANGED <<mutex, queueVars, wakeVars, batch, target, object, live,
                 historyVars>>

\* Mutant: notify_waiters() stores no permit for a worker that is not parked.
WakePermit_WaitersOnly(c) == live[c] /\ worker[target[c]] = "parked"

\* notify_one() reaches the worker of the current entry.
WakePermit(c) == live[c]

\* After the unlock: wake.notify_one().  The Notify of a removed entry has
\* no waiter any more, and its permit is never read.
NotifyOne(c) ==
  /\ caller[c] = "notify"
  /\ permit' = IF WakePermit(c) THEN [permit EXCEPT ![target[c]] = TRUE] ELSE permit
  /\ caller' = [caller EXCEPT ![c] = "idle"]
  /\ target' = [target EXCEPT ![c] = NoOne]
  /\ live' = [live EXCEPT ![c] = FALSE]
  /\ UNCHANGED <<mutex, queueVars, timers, workerVars, object, historyVars>>

MarkStopped(p) ==
  /\ stopped' = [stopped EXCEPT ![p] = TRUE]
  /\ UNCHANGED <<entry, items>>

\* After the unlock the caller has a notify_one() to do for p.
WillNotify(c, p) ==
  /\ caller' = [caller EXCEPT ![c] = "notify"]
  /\ target' = [target EXCEPT ![c] = p]
  /\ live' = [live EXCEPT ![c] = TRUE]

\* drop_peer(): no-op without an entry.
DropPeer(c, p) ==
  /\ Free
  /\ caller[c] = "idle"
  /\ entry[p]
  /\ MarkStopped(p)
  /\ WillNotify(c, p)
  /\ UNCHANGED <<mutex, bytes, total, spawned, inFlight, wakeVars, workerVars,
                 object, historyVars>>

-----------------------------------------------------------------------------
(* The drain worker of peer p *)

\* wake.notified().await
Wake(p) ==
  /\ worker[p] = "parked"
  /\ permit[p]
  /\ permit' = [permit EXCEPT ![p] = FALSE]
  /\ worker' = [worker EXCEPT ![p] = "woken"]
  /\ UNCHANGED <<mutex, queueVars, timers, batch, callerVars, historyVars>>

\* check_and_remove_if_stopped() answers false.
CheckContinue(p) ==
  /\ Free
  /\ worker[p] \in {"woken", "check"}
  /\ entry[p] /\ ~stopped[p]
  /\ worker' = [worker EXCEPT ![p] = IF @ = "woken" THEN "check" ELSE "take"]
  /\ UNCHANGED <<mutex, queueVars, wakeVars, batch, callerVars, historyVars>>

\* Mutants: the bytes of a removed entry are refunded twice, or not at all.
Refunded_Never(p) == total

Refunded(p) == SaturatingSub(total, bytes[p])

\* check_and_remove_if_stopped() answers true: the entry goes with everything
\* queued in it, and the clones of its wake go dead.
CheckRemove(p) ==
  /\ Free
  /\ worker[p] \in {"woken", "check"}
  /\ ~entry[p] \/ stopped[p]
  /\ total' = Refunded(p)
  /\ settled' = settled \cup Ids(items[p])
  /\ entry' = [entry EXCEPT ![p] = FALSE]
  /\ items' = [items EXCEPT ![p] = <<>>]
  /\ bytes' = [bytes EXCEPT ![p] = 0]
  /\ spawned' = [spawned EXCEPT ![p] = FALSE]
  /\ inFlight' = [inFlight EXCEPT ![p] = FALSE]
  /\ stopped' = [stopped EXCEPT ![p] = FALSE]
  /\ permit' = [permit EXCEPT ![p] = FALSE]
  /\ timers' = [timers EXCEPT ![p] = 0]
  /\ live' = [c \in Callers |-> live[c] /\ target[c] # p]
  /\ worker' = [worker EXCEPT ![p] = "none"]
  /\ UNCHANGED <<mutex, batch, caller, target, object, next, expired, received>>

\* take_batch(): lock.
TakeLock(p) ==
  /\ Free
  /\ worker[p] = "take"
  /\ mutex' = p
  /\ worker' = [worker EXCEPT ![p] = "taking"]
  /\ UNCHANGED <<queueVars, wakeVars, batch, callerVars, historyVars>>

BatchOpen(p) == Len(batch[p]) < MaxBatch /\ items[p] # <<>>

\* Mutant: the age of an object that keeps failing is never looked at.
HeadStale_Never(p) == FALSE

HeadStale(p) == Head(items[p]).id \in expired
HeadOnRoute(p) == batch[p] # <<>> => batch[p][1].route = Head(items[p]).route

\* take_batch(): drop a stale front.
TakeStale(p) ==
  /\ worker[p] = "taking"
  /\ BatchOpen(p) /\ HeadStale(p)
  /\ PopFront(p)
  /\ settled' = settled \cup {Head(items[p]).id}
  /\ UNCHANGED <<mutex, entry, spawned, inFlight, stopped, wakeVars, workerVars,
                 callerVars, next, expired, received>>

\* take_batch(): move the front into the batch.
TakeItem(p) ==
  /\ worker[p] = "taking"
  /\ BatchOpen(p) /\ ~HeadStale(p) /\ HeadOnRoute(p)
  /\ PopFront(p)
  /\ batch' = [batch EXCEPT ![p] = Append(@, Head(items[p]))]
  /\ UNCHANGED <<mutex, entry, spawned, inFlight, stopped, wakeVars, worker,
                 callerVars, historyVars>>

\* Mutant: in_flight is not raised with the batch.
RaiseInFlight_Not(p) == inFlight[p]

RaiseInFlight(p) == inFlight[p] \/ batch[p] # <<>>

\* take_batch(): the batch is full, the queue empty, or the route changes.
TakeEnd(p) ==
  /\ worker[p] = "taking"
  /\ ~(BatchOpen(p) /\ (HeadStale(p) \/ HeadOnRoute(p)))
  /\ mutex' = NoOne
  /\ inFlight' = [inFlight EXCEPT ![p] = RaiseInFlight(p)]
  /\ worker' = [worker EXCEPT ![p] = IF batch[p] = <<>> THEN "idle" ELSE "sending"]
  /\ UNCHANGED <<entry, items, bytes, total, spawned, stopped, wakeVars, batch,
                 callerVars, historyVars>>

\* mark_idle(), then back to the outer wait.
MarkIdle(p) ==
  /\ Free
  /\ worker[p] = "idle"
  /\ inFlight' = [inFlight EXCEPT ![p] = FALSE]
  /\ worker' = [worker EXCEPT ![p] = "parked"]
  /\ UNCHANGED <<mutex, entry, items, bytes, total, spawned, stopped, wakeVars,
                 batch, callerVars, historyVars>>

\* dispatch_one() answers Success: the peer took the batch.
DispatchSuccess(p) ==
  /\ worker[p] = "sending"
  /\ received' = [received EXCEPT ![p] = @ \cup Ids(batch[p])]
  /\ settled' = settled \cup Ids(batch[p])
  /\ batch' = [batch EXCEPT ![p] = <<>>]
  /\ worker' = [worker EXCEPT ![p] = "check"]
  /\ UNCHANGED <<mutex, queueVars, wakeVars, callerVars, next, expired>>

\* dispatch_one() answers Terminal4xx: the peer refused it, and it is dropped.
DispatchTerminal(p) ==
  /\ worker[p] = "sending"
  /\ settled' = settled \cup Ids(batch[p])
  /\ batch' = [batch EXCEPT ![p] = <<>>]
  /\ worker' = [worker EXCEPT ![p] = "check"]
  /\ UNCHANGED <<mutex, queueVars, wakeVars, callerVars, next, expired, received>>

\* dispatch_one() answers Transient: 5xx, 429 or a transport error.  A lost
\* answer leaves the batch delivered, an error leaves it undelivered.
DispatchTransient(p) ==
  /\ worker[p] = "sending"
  /\ received' \in {received, [received EXCEPT ![p] = @ \cup Ids(batch[p])]}
  /\ worker' = [worker EXCEPT ![p] = "requeue"]
  /\ UNCHANGED <<mutex, queueVars, wakeVars, batch, callerVars, next, expired, settled>>

\* requeue_front(): lock.  Without an entry the batch is dropped.
RequeueLock(p) ==
  /\ Free
  /\ worker[p] = "requeue"
  /\ IF entry[p]
       THEN /\ mutex' = p
            /\ worker' = [worker EXCEPT ![p] = "requeueing"]
            /\ UNCHANGED batch
       ELSE /\ batch' = [batch EXCEPT ![p] = <<>>]
            /\ worker' = [worker EXCEPT ![p] = "clear"]
            /\ UNCHANGED mutex
  /\ UNCHANGED <<queueVars, wakeVars, callerVars, historyVars>>

\* Move batch[p][i] back to the queue, with `rest` left of the batch and `queue`
\* the new queue, and refund its bytes.
PutBack(p, i, rest, queue) ==
  /\ items' = [items EXCEPT ![p] = queue]
  /\ batch' = [batch EXCEPT ![p] = rest]
  /\ bytes' = [bytes EXCEPT ![p] = @ + batch[p][i].size]
  /\ total' = total + batch[p][i].size

\* Mutant: push_back.
Restore_AtBack(p) ==
  PutBack(p, 1, Tail(batch[p]), Append(items[p], Head(batch[p])))

\* push_front the last object of what is left of the batch.
Restore(p) ==
  LET n == Len(batch[p])
  IN PutBack(p, n, SubSeq(batch[p], 1, n - 1), <<batch[p][n]>> \o items[p])

\* requeue_front(): one round of its loop.  No cap is looked at.
RequeueItem(p) ==
  /\ worker[p] = "requeueing"
  /\ batch[p] # <<>>
  /\ Restore(p)
  /\ UNCHANGED <<mutex, entry, spawned, inFlight, stopped, wakeVars, worker,
                 callerVars, historyVars>>

\* requeue_front(): unlock.
RequeueEnd(p) ==
  /\ worker[p] = "requeueing"
  /\ batch[p] = <<>>
  /\ mutex' = NoOne
  /\ worker' = [worker EXCEPT ![p] = "clear"]
  /\ UNCHANGED <<queueVars, wakeVars, batch, callerVars, historyVars>>

\* mark_in_flight_false()
ClearInFlight(p) ==
  /\ Free
  /\ worker[p] = "clear"
  /\ inFlight' = [inFlight EXCEPT ![p] = FALSE]
  /\ worker' = [worker EXCEPT ![p] = "arm"]
  /\ UNCHANGED <<mutex, entry, items, bytes, total, spawned, stopped, wakeVars,
                 batch, callerVars, historyVars>>

StartSleep(p) == timers' = [timers EXCEPT ![p] = @ + 1]

\* Spawn the backoff sleep and go back to the outer wait.
ArmTimer(p) ==
  /\ worker[p] = "arm"
  /\ StartSleep(p)
  /\ worker' = [worker EXCEPT ![p] = "parked"]
  /\ UNCHANGED <<mutex, queueVars, permit, batch, callerVars, historyVars>>

\* A backoff sleep ends: wake_after.notify_one().
TimerFires(p) ==
  /\ timers[p] > 0
  /\ timers' = [timers EXCEPT ![p] = @ - 1]
  /\ permit' = [permit EXCEPT ![p] = TRUE]
  /\ UNCHANGED <<mutex, queueVars, workerVars, callerVars, historyVars>>

\* The clock: an object still waiting grows older than object_max_age.
Pending(p) == Ids(items[p]) \cup Ids(batch[p])
Queued == UNION {Pending(p) : p \in Peers}

Expire(i) ==
  /\ i \in Queued \ expired
  /\ expired' = expired \cup {i}
  /\ UNCHANGED <<mutex, queueVars, wakeVars, workerVars, callerVars, next,
                 received, settled>>

-----------------------------------------------------------------------------
CallerStep(c) ==
  \/ DropOldestOwn(c)
  \/ RejectOversize(c)
  \/ \E q \in Peers : EvictLargest(c, q)
  \/ RejectGlobal(c)
  \/ Push(c)
  \/ Spawn(c)
  \/ NotifyOne(c)

WorkerStep(p) ==
  \/ Wake(p)
  \/ CheckContinue(p)
  \/ CheckRemove(p)
  \/ TakeLock(p)
  \/ TakeStale(p)
  \/ TakeItem(p)
  \/ TakeEnd(p)
  \/ MarkIdle(p)
  \/ DispatchSuccess(p)
  \/ DispatchTerminal(p)
  \/ DispatchTransient(p)
  \/ RequeueLock(p)
  \/ RequeueItem(p)
  \/ RequeueEnd(p)
  \/ ClearInFlight(p)
  \/ ArmTimer(p)

Next ==
  \/ \E c \in Callers, p \in Peers, sz \in Sizes, rt \in Routes :
        EnqueueLock(c, p, sz, rt)
  \/ \E c \in Callers, p \in Peers : DropPeer(c, p)
  \/ \E c \in Callers : CallerStep(c)
  \/ \E p \in Peers : WorkerStep(p)
  \/ \E p \in Peers : TimerFires(p)
  \/ \E i \in 1..MaxObjects : Expire(i)

Spec == Init /\ [][Next]_vars

\* The runtime keeps polling a task that can run, a request ends at the
\* latest with the transport's timeout, a sleep ends, and time passes.
Fairness ==
  /\ \A c \in Callers : WF_vars(CallerStep(c))
  /\ \A p \in Peers : WF_vars(WorkerStep(p)) /\ WF_vars(TimerFires(p))
  /\ \A i \in 1..MaxObjects : WF_vars(Expire(i))

FairSpec == Spec /\ Fairness

-----------------------------------------------------------------------------
(* Properties *)

\* The values of the queue's fields, its worker's and its callers' locals.
TypeOK ==
  /\ mutex \in {NoOne} \cup Callers \cup Peers
  /\ entry \in [Peers -> BOOLEAN]
  /\ items \in [Peers -> Seq(QueuedObject)]
  /\ bytes \in [Peers -> Nat]
  /\ total \in Nat
  /\ spawned \in [Peers -> BOOLEAN]
  /\ inFlight \in [Peers -> BOOLEAN]
  /\ stopped \in [Peers -> BOOLEAN]
  /\ permit \in [Peers -> BOOLEAN]
  /\ timers \in [Peers -> Nat]
  /\ worker \in [Peers -> WorkerStates]
  /\ batch \in [Peers -> Seq(QueuedObject)]
  /\ caller \in [Callers -> CallerStates]
  /\ target \in [Callers -> Peers \cup {NoOne}]
  /\ object \in [Callers -> QueuedObject \cup {NoOne}]
  /\ live \in [Callers -> BOOLEAN]
  /\ next \in 1..(MaxObjects + 1)
  /\ expired \subseteq 1..MaxObjects
  /\ received \in [Peers -> SUBSET (1..MaxObjects)]
  /\ settled \subseteq 1..MaxObjects

\* Caller c still owes the current entry of p a notify_one().
OwesWake(c, p) == caller[c] \in {"spawn", "notify"} /\ target[c] = p /\ live[c]

\* The worker of p exists, or is about to be spawned.
HasWorker(p) ==
  worker[p] # "none" \/ \E c \in Callers : caller[c] = "spawn" /\ target[c] = p

\* The worker runs, or a permit, a backoff sleep or a caller will wake it.
WillLook(p) ==
  \/ worker[p] \notin {"none", "parked", "idle"}
  \/ permit[p]
  \/ timers[p] > 0
  \/ \E c \in Callers : OwesWake(c, p)

\* No lost wakeup.  Whenever a peer's queue holds an object, or was told to
\* stop, a worker is on its way to look at the queue again.  enqueue() and
\* drop_peer() notify only after the unlock, and mark_idle() and the backoff
\* run outside the lock of take_batch().
NoLostWakeup ==
  \A p \in Peers :
    items[p] # <<>> \/ (stopped[p] /\ spawned[p]) => HasWorker(p) /\ WillLook(p)

\* One drain worker per peer ("exactly one drain worker exists"): whoever is
\* about to spawn is alone in that, finds no worker running, and spawns for
\* the entry that still is in the map, also across drop_peer().
OneWorker ==
  \A c \in Callers : caller[c] = "spawn" =>
    /\ worker[target[c]] = "none" /\ live[c] /\ entry[target[c]]
    /\ \A d \in Callers : caller[d] = "spawn" /\ target[d] = target[c] => d = c

\* wait_idle() speaks the truth: a peer whose worker holds a batch is never
\* idle, and its entry stays in the map, so requeue_front() finds it.
BatchIsVisible ==
  \A p \in Peers : batch[p] # <<>> /\ Free => inFlight[p] /\ entry[p]

\* No object is lost or doubled inside the queue: an object that entered is at
\* one place (with its caller, in one peer's queue, in one worker's batch), or
\* left for a reason the code names.
Carried == {object[c].id : c \in {d \in Callers : object[d] # NoOne}}
OnePlaceEach ==
  /\ 1..(next - 1) = Queued \cup Carried \cup settled
  /\ Queued \cap Carried = {} /\ (Queued \cup Carried) \cap settled = {}
  /\ \A p \in Peers : Ids(items[p]) \cap Ids(batch[p]) = {}
  /\ \A p, q \in Peers : p # q => Pending(p) \cap Pending(q) = {}

\* a[1] + ... + a[n]
RunningSum(a, n) ==
  LET sum[i \in 0..n] == IF i = 0 THEN 0 ELSE sum[i - 1] + a[i]
  IN sum
Sum(a, n) == RunningSum(a, n)[n]

\* The peers, in any order.
Rolls == Bijection(1..Cardinality(Peers), Peers)

\* The counters agree with the queues, so the saturating subtractions never
\* hide a difference: a peer's bytes are those of its queue, and the process
\* total, on which the eviction of other peers' objects depends, is the sum of
\* the peers' bytes.
SizesOf(s) == [i \in 1..Len(s) |-> s[i].size]
SeqBytes(s) == Sum(SizesOf(s), Len(s))
BytesAlong(e) == [i \in 1..Cardinality(Peers) |-> bytes[e[i]]]
ByteAccounting ==
  /\ \A p \in Peers : bytes[p] = SeqBytes(items[p])
  /\ \A e \in Rolls : total = Sum(BytesAlong(e), Cardinality(Peers))

\* requeue_front() ignores the caps, but a queue together with the batch in
\* flight never exceeds the cap by more than one batch.
BoundedOvershoot ==
  \A p \in Peers : Len(items[p]) + Len(batch[p]) <= ObjectsPerPeer + MaxBatch

\* What is queued is accounted for, object by object and byte by byte, and keeps to
\* the cap but for a batch, however pushes, deliveries, failures and drops interleave.
Conservation == TypeOK /\ OnePlaceEach /\ ByteAccounting /\ BoundedOvershoot

\* A peer first sees objects in the order they were enqueued, whatever fails,
\* is retried, delivered twice or evicted in between.
FirstReceiptInOrderStep ==
  \A p \in Peers : \A new \in received'[p] \ received[p], old \in received[p] :
     old < new
FirstReceiptInOrder == [][FirstReceiptInOrderStep]_vars

\* Every object that enters leaves: delivered, refused, evicted or stale, even
\* if the peer fails every request.
EveryObjectSettles == \A i \in 1..MaxObjects : (next > i) ~> (i \in settled)

\* A dropped peer's queue goes away once a worker serves it.
DropTakesEffect == \A p \in Peers : (stopped[p] /\ spawned[p]) ~> ~entry[p]

\* Nothing stays in a queue for ever: objects leave it, and so does the queue
\* of a dropped peer.
QueuesEmpty == EveryObjectSettles /\ DropTakesEffect
=============================================================================
