------------------------- MODULE OutboundQueueProofs -------------------------
(***************************************************************************)
(* Proofs about OutboundQueue for any peers, callers, object sizes and     *)
(* caps.                                                                   *)
(*                                                                         *)
(* Control: type correctness, no lost wakeup, one worker per peer, and     *)
(* what wait_idle() may rely on.                                           *)
(*                                                                         *)
(* Content: no object is lost or held twice, and a peer first receives     *)
(* objects in the order they were enqueued.  The queue and the batch of a  *)
(* peer are in that order, the batch before the queue, and what the peer   *)
(* has received is older than what is still to be taken.                   *)
(***************************************************************************)
EXTENDS OutboundQueue, SequenceTheorems, TLAPS

\* The locals of a caller inside enqueue() or drop_peer().
CallerInv ==
  \A c \in Callers :
    /\ caller[c] = "admit" =>
         /\ mutex = c /\ live[c]
         /\ object[c] \in QueuedObject
    /\ caller[c] # "idle" => target[c] \in Peers
    /\ caller[c] = "spawn" => spawned[target[c]]
    /\ caller[c] # "idle" /\ live[c] => entry[target[c]]

\* An absent entry has the fields of PeerQueue::new(), and a worker has one.
EntryInv ==
  \A p \in Peers :
    /\ ~entry[p] => items[p] = <<>> /\ ~spawned[p] /\ ~stopped[p]
    /\ items[p] # <<>> => spawned[p]
    /\ worker[p] # "none" => spawned[p]
    /\ spawned[p] => HasWorker(p)

\* What the worker holds: the mutex, a batch, the in-flight flag.
WorkerInv ==
  \A p \in Peers :
    /\ worker[p] \in {"taking", "requeueing"} => mutex = p
    /\ batch[p] # <<>> => worker[p] \in {"taking", "sending", "requeue", "requeueing"}
    /\ worker[p] \in {"sending", "requeue", "requeueing"} => inFlight[p]

\* A stop request is seen by a check that is still to come, where a queued
\* object needs only a worker that is still going to take a batch.
StopInv ==
  \A p \in Peers :
    stopped[p] /\ spawned[p] =>
      \/ worker[p] \in {"woken", "check"}
      \/ permit[p]
      \/ \E c \in Callers : OwesWake(c, p)

ItemsInv == \A p \in Peers : items[p] # <<>> => WillLook(p)

ControlInv ==
  /\ TypeOK /\ CallerInv /\ EntryInv /\ WorkerInv /\ OneWorker /\ StopInv /\ ItemsInv

-----------------------------------------------------------------------------
(* Sequences *)

\* What the pops, pushes and cuts of the queue return.
LEMMA SeqTypes ==
  ASSUME NEW S, NEW s \in Seq(S), s # <<>>
  PROVE  /\ Len(s) \in Nat \ {0}
         /\ Head(s) \in S
         /\ Tail(s) \in Seq(S)
         /\ s[Len(s)] \in S
         /\ SubSeq(s, 1, Len(s) - 1) \in Seq(S)
         /\ Len(SubSeq(s, 1, Len(s) - 1)) = Len(s) - 1
         /\ Len(Tail(s)) = Len(s) - 1
<1>1. Len(s) \in Nat \ {0} /\ Head(s) \in S /\ Tail(s) \in Seq(S)
  OBVIOUS
<1>2. Len(Tail(s)) = Len(s) - 1 /\ s[Len(s)] \in S
  BY <1>1
<1>3. \A i \in 1 .. Len(s) - 1 : s[i] \in S
  OBVIOUS
<1>4. SubSeq(s, 1, Len(s) - 1) \in Seq(S) /\ Len(SubSeq(s, 1, Len(s) - 1)) = Len(s) - 1
  <2>1. \A k \in Int : (\A i \in 1 .. k : s[i] \in S) =>
          SubSeq(s, 1, k) \in Seq(S) /\ Len(SubSeq(s, 1, k)) = IF 1 <= k THEN k ELSE 0
    BY SubSeqProperties
  <2>2. Len(s) - 1 \in Int /\ (1 <= Len(s) - 1 \/ Len(s) - 1 = 0)
    <3>1. \A n \in Nat \ {0} : n - 1 \in Int /\ (1 <= n - 1 \/ n - 1 = 0)
      OBVIOUS
    <3> QED
      BY Zenon, <1>1, <3>1
  <2> QED
    BY <1>3, <2>1, <2>2
<1> QED
  BY <1>1, <1>2, <1>4

LEMMA PutFront ==
  ASSUME NEW S, NEW s \in Seq(S), NEW x \in S
  PROVE  /\ <<x>> \o s \in Seq(S)
         /\ Len(<<x>> \o s) = Len(s) + 1
         /\ <<x>> \o s # <<>>
         /\ Append(s, x) \in Seq(S)
         /\ Len(Append(s, x)) = Len(s) + 1
         /\ Append(s, x) # <<>>
<1>1. <<x>> \in Seq(S) /\ Len(<<x>>) = 1 /\ Len(s) \in Nat
  OBVIOUS
<1>2. <<x>> \o s \in Seq(S) /\ Len(<<x>> \o s) = Len(s) + 1
  BY <1>1, ConcatProperties
<1>3. <<x>> \o s # <<>>
  BY <1>1, <1>2, EmptySeq
<1> QED
  BY <1>2, <1>3, AppendProperties

\* The ids of a queue are ids of objects.
LEMMA IdsType ==
  ASSUME NEW s \in Seq(QueuedObject)
  PROVE  Ids(s) \subseteq 1..MaxObjects
<1>1. \A i \in 1..Len(s) : s[i] \in QueuedObject
  BY ElementOfSeq
<1> QED
  BY <1>1 DEF Ids, QueuedObject

-----------------------------------------------------------------------------
(* Type correctness *)

LEMMA InitType == Init => TypeOK
  BY OutboundConfig DEF Init, TypeOK, WorkerStates, CallerStates

\* The record enqueue() builds is a queued object.
LEMMA NewObject ==
  ASSUME TypeOK, NEW c \in Callers, NEW p \in Peers, NEW sz \in Sizes, NEW rt \in Routes,
         EnqueueLock(c, p, sz, rt)
  PROVE  [id |-> next, size |-> sz, route |-> rt] \in QueuedObject
  BY OutboundConfig DEF TypeOK, EnqueueLock, QueuedObject

LEMMA EnqueueType ==
  ASSUME TypeOK, NEW c \in Callers, NEW p \in Peers, NEW sz \in Sizes, NEW rt \in Routes,
         EnqueueLock(c, p, sz, rt)
  PROVE  TypeOK'
<1>1. [id |-> next, size |-> sz, route |-> rt] \in QueuedObject
  BY NewObject
<1>2. next' \in 1..(MaxObjects + 1)
  BY OutboundConfig DEF TypeOK, EnqueueLock
<1>3. object' \in [Callers -> QueuedObject \cup {NoOne}]
  BY <1>1 DEF TypeOK, EnqueueLock
<1> QED
  BY <1>2, <1>3 DEF TypeOK, EnqueueLock, CallerStates, wakeVars, workerVars

\* A pop keeps the types, and hands out an object.
LEMMA PopType ==
  ASSUME TypeOK, NEW q \in Peers, items[q] # <<>>, PopFront(q)
  PROVE  /\ items' \in [Peers -> Seq(QueuedObject)]
         /\ bytes' \in [Peers -> Nat]
         /\ total' \in Nat
         /\ Head(items[q]) \in QueuedObject
         /\ Head(items[q]).id \in 1..MaxObjects
<1>1. items[q] \in Seq(QueuedObject) /\ bytes[q] \in Nat /\ total \in Nat
  BY DEF TypeOK
<1>2. Head(items[q]) \in QueuedObject /\ Tail(items[q]) \in Seq(QueuedObject)
  BY <1>1, SeqTypes
<1>3. Head(items[q]).size \in Nat /\ Head(items[q]).id \in 1..MaxObjects
  BY Zenon, <1>2, OutboundConfig DEF QueuedObject
<1>4. \A a \in Nat : SaturatingSub(a, Head(items[q]).size) \in Nat
  BY <1>3 DEF SaturatingSub
<1> QED
  BY Zenon, <1>1, <1>2, <1>3, <1>4 DEF TypeOK, PopFront

LEMMA CallerType ==
  ASSUME TypeOK, CallerInv, NEW c \in Callers, CallerStep(c)
  PROVE  TypeOK'
<1> USE DEF wakeVars, workerVars, callerVars, queueVars, historyVars
<1>0. caller[c] # "idle" => target[c] \in Peers
  BY DEF CallerInv
<1>00. caller[c] = "admit" =>
         object[c] \in QueuedObject /\ object[c].size \in Nat /\ object[c].id \in 1..MaxObjects
  BY Zenon, OutboundConfig DEF CallerInv, QueuedObject
<1>1. CASE DropOldestOwn(c)
  <2>1. target[c] \in Peers /\ items[target[c]] # <<>> /\ PopFront(target[c])
    BY <1>1, <1>0 DEF DropOldestOwn, OverPeerCap
  <2> QED
    BY Zenon, <1>1, <2>1, PopType DEF TypeOK, DropOldestOwn
<1>2. CASE RejectOversize(c)
  BY Zenon, <1>2, <1>00 DEF TypeOK, RejectOversize, EnqueueReturn, CallerStates
<1>3. CASE \E q \in Peers : EvictLargest(c, q)
  <2>1. PICK q \in Peers : EvictLargest(c, q)
    BY <1>3
  <2>2. items[q] # <<>> /\ PopFront(q)
    BY <2>1 DEF EvictLargest
  <2> QED
    BY Zenon, <2>1, <2>2, PopType DEF TypeOK, EvictLargest
<1>4. CASE RejectGlobal(c)
  BY Zenon, <1>4, <1>00 DEF TypeOK, RejectGlobal, EnqueueReturn, CallerStates
<1>5. CASE Push(c)
  <2>1. Append(items[target[c]], object[c]) \in Seq(QueuedObject)
    BY <1>5, <1>0, <1>00, PutFront DEF TypeOK, Push
  <2>2. target[c] \in Peers /\ object[c].size \in Nat
    BY <1>5, <1>0, <1>00 DEF Push
  <2>3. items' \in [Peers -> Seq(QueuedObject)]
    BY <1>5, <2>1, <2>2 DEF TypeOK, Push
  <2>4. bytes' \in [Peers -> Nat] /\ total' \in Nat
    BY SMTT(40), <1>5, <2>2 DEF TypeOK, Push
  <2>5. spawned' \in [Peers -> BOOLEAN] /\ caller' \in [Callers -> CallerStates]
    BY <1>5, <2>2 DEF TypeOK, Push, MarkSpawned, CallerStates
  <2> QED
    BY Zenon, <1>5, <2>3, <2>4, <2>5 DEF TypeOK, Push
<1>6. CASE Spawn(c)
  BY SMTT(40), <1>6, <1>0 DEF TypeOK, Spawn, CallerStates, WorkerStates
<1>7. CASE NotifyOne(c)
  BY Zenon, <1>7, <1>0 DEF TypeOK, NotifyOne, CallerStates
<1> QED
  BY <1>1, <1>2, <1>3, <1>4, <1>5, <1>6, <1>7 DEF CallerStep

LEMMA WorkerType ==
  ASSUME TypeOK, NEW p \in Peers, WorkerStep(p)
  PROVE  TypeOK'
<1> USE DEF wakeVars, workerVars, callerVars, queueVars, historyVars, WorkerStates
<1>0. /\ items[p] \in Seq(QueuedObject) /\ batch[p] \in Seq(QueuedObject)
      /\ Ids(items[p]) \subseteq 1..MaxObjects
      /\ Ids(batch[p]) \subseteq 1..MaxObjects
      /\ <<>> \in Seq(QueuedObject)
  BY IdsType, EmptySeq DEF TypeOK
<1>1. CASE Wake(p)
  BY <1>1 DEF TypeOK, Wake
<1>2. CASE CheckContinue(p)
  BY <1>2 DEF TypeOK, CheckContinue
<1>3. CASE CheckRemove(p)
  <2>1. Refunded(p) \in Nat
    BY DEF TypeOK, Refunded, SaturatingSub
  <2>2. items' \in [Peers -> Seq(QueuedObject)] /\ bytes' \in [Peers -> Nat]
    BY <1>3, <1>0 DEF TypeOK, CheckRemove
  <2>3. settled' \subseteq 1..MaxObjects
    BY Zenon, <1>3, <1>0 DEF TypeOK, CheckRemove
  <2>4. live' \in [Callers -> BOOLEAN]
    BY <1>3 DEF TypeOK, CheckRemove
  <2> QED
    BY <1>3, <2>1, <2>2, <2>3, <2>4 DEF TypeOK, CheckRemove
<1>4. CASE TakeLock(p)
  BY <1>4 DEF TypeOK, TakeLock
<1>5. CASE TakeStale(p)
  <2>1. items[p] # <<>> /\ PopFront(p)
    BY <1>5 DEF TakeStale, BatchOpen
  <2> QED
    BY Zenon, <1>5, <2>1, PopType DEF TypeOK, TakeStale
<1>6. CASE TakeItem(p)
  <2>1. items[p] # <<>> /\ PopFront(p)
    BY <1>6 DEF TakeItem, BatchOpen
  <2>2. Append(batch[p], Head(items[p])) \in Seq(QueuedObject)
    BY <1>0, <2>1, PopType, PutFront
  <2> QED
    BY Zenon, <1>6, <2>1, <2>2, PopType DEF TypeOK, TakeItem
<1>7. CASE TakeEnd(p)
  BY <1>7 DEF TypeOK, TakeEnd, RaiseInFlight
<1>8. CASE MarkIdle(p)
  BY <1>8 DEF TypeOK, MarkIdle
<1>9. CASE DispatchSuccess(p)
  <2>1. batch' \in [Peers -> Seq(QueuedObject)]
    BY <1>9, <1>0 DEF TypeOK, DispatchSuccess
  <2>2. received' \in [Peers -> SUBSET (1..MaxObjects)] /\ settled' \subseteq 1..MaxObjects
    BY Zenon, <1>9, <1>0 DEF TypeOK, DispatchSuccess
  <2> QED
    BY <1>9, <2>1, <2>2 DEF TypeOK, DispatchSuccess
<1>10. CASE DispatchTerminal(p)
  <2>1. batch' \in [Peers -> Seq(QueuedObject)] /\ settled' \subseteq 1..MaxObjects
    BY Zenon, <1>10, <1>0 DEF TypeOK, DispatchTerminal
  <2> QED
    BY <1>10, <2>1 DEF TypeOK, DispatchTerminal
<1>11. CASE DispatchTransient(p)
  BY ZenonT(60), <1>11, <1>0 DEF TypeOK, DispatchTransient
<1>12. CASE RequeueLock(p)
  <2>1. batch' \in [Peers -> Seq(QueuedObject)]
    <3>1. CASE entry[p]
      BY <1>12, <3>1 DEF TypeOK, RequeueLock
    <3>2. CASE ~entry[p]
      <4>1. batch' = [batch EXCEPT ![p] = <<>>]
        BY <1>12, <3>2 DEF RequeueLock
      <4> QED
        BY <4>1, <1>0 DEF TypeOK
    <3> QED
      BY <3>1, <3>2
  <2> QED
    BY Zenon, <1>12, <2>1 DEF TypeOK, RequeueLock
<1>13. CASE RequeueItem(p)
  <2>1. /\ batch[p][Len(batch[p])] \in QueuedObject
        /\ SubSeq(batch[p], 1, Len(batch[p]) - 1) \in Seq(QueuedObject)
    BY <1>13, <1>0, SeqTypes DEF RequeueItem
  <2>2. /\ batch[p][Len(batch[p])].size \in Nat
        /\ <<batch[p][Len(batch[p])]>> \o items[p] \in Seq(QueuedObject)
    BY Zenon, <1>0, <2>1, PutFront, OutboundConfig DEF QueuedObject
  <2>3. items' \in [Peers -> Seq(QueuedObject)] /\ batch' \in [Peers -> Seq(QueuedObject)]
    BY <1>13, <2>1, <2>2 DEF TypeOK, RequeueItem, Restore, PutBack
  <2>4. bytes' \in [Peers -> Nat] /\ total' \in Nat
    BY SMTT(40), <1>13, <2>2 DEF TypeOK, RequeueItem, Restore, PutBack
  <2> QED
    BY Zenon, <1>13, <2>3, <2>4 DEF TypeOK, RequeueItem
<1>14. CASE RequeueEnd(p)
  BY <1>14 DEF TypeOK, RequeueEnd
<1>15. CASE ClearInFlight(p)
  BY <1>15 DEF TypeOK, ClearInFlight
<1>16. CASE ArmTimer(p)
  BY <1>16 DEF TypeOK, ArmTimer, StartSleep
<1> QED
  BY <1>1, <1>2, <1>3, <1>4, <1>5, <1>6, <1>7, <1>8, <1>9, <1>10, <1>11, <1>12, <1>13,
     <1>14, <1>15, <1>16 DEF WorkerStep

\* Every step keeps the types, given the locals of the callers.
LEMMA StepType == TypeOK /\ CallerInv /\ [Next]_vars => TypeOK'
<1> SUFFICES ASSUME TypeOK, CallerInv, [Next]_vars PROVE TypeOK'
  OBVIOUS
<1> USE DEF wakeVars, workerVars, callerVars, queueVars, historyVars
<1>1. ASSUME NEW c \in Callers, NEW p \in Peers, DropPeer(c, p) PROVE TypeOK'
  BY <1>1 DEF TypeOK, DropPeer, MarkStopped, WillNotify, CallerStates
<1>2. ASSUME NEW p \in Peers, TimerFires(p) PROVE TypeOK'
  BY SMTT(40), <1>2 DEF TypeOK, TimerFires
<1>3. ASSUME NEW i \in 1..MaxObjects, Expire(i) PROVE TypeOK'
  BY <1>3 DEF TypeOK, Expire
<1>4. CASE UNCHANGED vars
  BY Zenon, <1>4 DEF TypeOK, vars
<1> QED
  BY <1>1, <1>2, <1>3, <1>4, EnqueueType, CallerType, WorkerType DEF Next

-----------------------------------------------------------------------------
(* What a step leaves alone *)

\* A step of the worker of p, removal apart: it touches no other peer, no
\* caller and no flag that others set, and gives up the mutex only if it has it.
WorkerFrame(p) ==
  /\ worker[p] # "none" /\ worker'[p] # "none"
  /\ \A q \in Peers : q # p =>
       /\ items'[q] = items[q] /\ worker'[q] = worker[q] /\ batch'[q] = batch[q]
       /\ inFlight'[q] = inFlight[q] /\ permit'[q] = permit[q] /\ timers'[q] = timers[q]
  /\ UNCHANGED <<entry, spawned, stopped, caller, target, object, live>>
  /\ mutex' # mutex => mutex \in {NoOne, p}

\* It consumes a permit only to check for a stop, and passes the check only
\* when there is none.
SeesStop(p) ==
  /\ permit'[p] = permit[p] \/ worker'[p] = "woken"
  /\ worker[p] \in {"woken", "check"} => ~stopped[p]

\* It leaves objects behind only while it runs on or has a sleep to wake it,
\* unless it was done with the queue before.
SeesItems(p) ==
  \/ items'[p] = <<>>
  \/ worker'[p] \notin {"none", "parked", "idle"}
  \/ timers'[p] > 0
  \/ /\ worker[p] = "idle" /\ items'[p] = items[p]
     /\ permit'[p] = permit[p] /\ timers'[p] = timers[p]

\* It holds the mutex, a batch and the in-flight flag where WorkerInv says.
HoldsAsWorker(p) ==
  /\ worker'[p] \in {"taking", "requeueing"} => mutex' = p
  /\ batch'[p] # <<>> => worker'[p] \in {"taking", "sending", "requeue", "requeueing"}
  /\ worker'[p] \in {"sending", "requeue", "requeueing"} => inFlight'[p]
  /\ mutex' \in {mutex, p, NoOne}

KeepsFrame(p) == WorkerFrame(p) /\ SeesStop(p) /\ SeesItems(p) /\ HoldsAsWorker(p)

LEMMA WorkerKeepsFrame ==
  ASSUME TypeOK, WorkerInv, NEW p \in Peers, WorkerStep(p), ~CheckRemove(p)
  PROVE  KeepsFrame(p)
<1> USE DEF wakeVars, workerVars, callerVars, queueVars, historyVars, KeepsFrame, WorkerFrame,
            SeesStop, SeesItems, HoldsAsWorker
<1>0. /\ worker \in [Peers -> WorkerStates] /\ batch \in [Peers -> Seq(QueuedObject)]
      /\ items \in [Peers -> Seq(QueuedObject)] /\ inFlight \in [Peers -> BOOLEAN]
      /\ permit \in [Peers -> BOOLEAN] /\ timers \in [Peers -> Nat]
      /\ worker[p] \in {"taking", "requeueing"} => mutex = p
      /\ batch[p] # <<>> => worker[p] \in {"taking", "sending", "requeue", "requeueing"}
      /\ worker[p] \in {"sending", "requeue", "requeueing"} => inFlight[p]
  BY DEF TypeOK, WorkerInv
<1>1. CASE Wake(p)
  BY <1>0, <1>1 DEF Wake
<1>2. CASE CheckContinue(p)
  BY <1>0, <1>2 DEF CheckContinue
<1>4. CASE TakeLock(p)
  BY Zenon, <1>0, <1>4 DEF TakeLock, Free
<1>5. CASE TakeStale(p)
  BY Zenon, <1>0, <1>5 DEF TakeStale, PopFront
<1>6. CASE TakeItem(p)
  BY Zenon, <1>0, <1>6 DEF TakeItem, PopFront
<1>7. CASE TakeEnd(p)
  <2>1. batch[p] = <<>> => items[p] = <<>>
    <3>1. ~(BatchOpen(p) /\ HeadOnRoute(p)) /\ (batch[p] = <<>> => HeadOnRoute(p))
      BY Zenon, <1>7 DEF TakeEnd, HeadOnRoute
    <3>2. batch[p] = <<>> => Len(batch[p]) < MaxBatch
      BY OutboundConfig, EmptySeq
    <3> QED
      BY Zenon, <3>1, <3>2 DEF BatchOpen
  <2>2. CASE batch[p] = <<>>
    BY <1>0, <1>7, <2>1, <2>2 DEF TakeEnd, RaiseInFlight
  <2>3. CASE batch[p] # <<>>
    <3>1. inFlight'[p] = TRUE
      BY ZenonT(60), <1>0, <1>7, <2>3 DEF TakeEnd, RaiseInFlight
    <3> QED
      BY <1>0, <1>7, <2>3, <3>1 DEF TakeEnd
  <2> QED
    BY Zenon, <2>2, <2>3
<1>8. CASE MarkIdle(p)
  BY <1>0, <1>8 DEF MarkIdle
<1>9. CASE DispatchSuccess(p)
  BY <1>0, <1>9 DEF DispatchSuccess
<1>10. CASE DispatchTerminal(p)
  BY <1>0, <1>10 DEF DispatchTerminal
<1>11. CASE DispatchTransient(p)
  BY <1>0, <1>11 DEF DispatchTransient
<1>12. CASE RequeueLock(p)
  <2>1. CASE entry[p]
    BY ZenonT(60), <1>0, <1>12, <2>1 DEF RequeueLock, Free
  <2>2. CASE ~entry[p]
    BY Zenon, <1>0, <1>12, <2>2 DEF RequeueLock, Free
  <2> QED
    BY Zenon, <2>1, <2>2
<1>13. CASE RequeueItem(p)
  BY <1>0, <1>13 DEF RequeueItem, Restore, PutBack
<1>14. CASE RequeueEnd(p)
  BY <1>0, <1>14 DEF RequeueEnd
<1>15. CASE ClearInFlight(p)
  BY <1>0, <1>15 DEF ClearInFlight
<1>16. CASE ArmTimer(p)
  BY <1>0, <1>16 DEF ArmTimer, StartSleep
<1> QED
  BY Zenon, <1>1, <1>2, <1>4, <1>5, <1>6, <1>7, <1>8, <1>9, <1>10, <1>11, <1>12, <1>13, <1>14,
     <1>15, <1>16 DEF WorkerStep

\* A step of enqueue() under the mutex up to the push: no worker, no flag and
\* no pending notify changes, queues only shrink and entries only appear.
AdmissionFrame ==
  /\ \A q \in Peers : items'[q] # <<>> => items[q] # <<>>
  /\ \A q \in Peers : entry[q] => entry'[q]
  /\ \A q \in Peers : ~entry'[q] => ~entry[q]
  /\ UNCHANGED <<spawned, stopped, permit, timers, worker, batch, inFlight>>
  /\ \A d \in Callers :
       caller[d] \in {"spawn", "notify"} \/ caller'[d] \in {"spawn", "notify"} =>
         caller'[d] = caller[d] /\ target'[d] = target[d] /\ live'[d] = live[d]
  /\ mutex \in Callers \cup {NoOne}

Admission(c) ==
  \/ \E p \in Peers, sz \in Sizes, rt \in Routes : EnqueueLock(c, p, sz, rt)
  \/ DropOldestOwn(c)
  \/ \E q \in Peers : EvictLargest(c, q)
  \/ RejectOversize(c)
  \/ RejectGlobal(c)

LEMMA AdmissionKeepsFrame ==
  ASSUME TypeOK, CallerInv, NEW c \in Callers, Admission(c)
  PROVE  AdmissionFrame /\ CallerInv'
<1> USE DEF wakeVars, workerVars, callerVars, queueVars, historyVars
<1>0. /\ caller[c] = "admit" => mutex = c /\ target[c] \in Peers
      /\ items \in [Peers -> Seq(QueuedObject)] /\ entry \in [Peers -> BOOLEAN]
      /\ caller \in [Callers -> CallerStates] /\ target \in [Callers -> Peers \cup {NoOne}]
      /\ live \in [Callers -> BOOLEAN] /\ object \in [Callers -> QueuedObject \cup {NoOne}]
  BY DEF TypeOK, CallerInv
<1>1. ASSUME NEW p \in Peers, NEW sz \in Sizes, NEW rt \in Routes, EnqueueLock(c, p, sz, rt)
      PROVE  AdmissionFrame /\ CallerInv'
  <2>1. [id |-> next, size |-> sz, route |-> rt] \in QueuedObject
    BY <1>1, NewObject
  <2>2. AdmissionFrame
    BY Zenon, <1>0, <1>1 DEF AdmissionFrame, EnqueueLock, Free
  <2>3. /\ caller'[c] = "admit" /\ target'[c] = p /\ live'[c] /\ object'[c] \in QueuedObject
        /\ mutex' = c /\ entry'[p]
    BY <1>0, <1>1, <2>1 DEF EnqueueLock
  <2>4. \A d \in Callers : d # c =>
          /\ caller[d] # "admit" /\ caller'[d] = caller[d] /\ target'[d] = target[d]
          /\ live'[d] = live[d]
    BY <1>0, <1>1, OutboundConfig DEF CallerInv, EnqueueLock, Free
  <2>5. UNCHANGED spawned
    BY <1>1 DEF EnqueueLock
  <2> QED
    BY <2>2, <2>3, <2>4, <2>5 DEF CallerInv, AdmissionFrame
<1>2. ASSUME NEW q \in Peers, items[q] # <<>>, PopFront(q),
             UNCHANGED <<mutex, entry, spawned, inFlight, stopped, wakeVars, workerVars, callerVars>>,
             mutex = c
      PROVE  AdmissionFrame /\ CallerInv'
  <2>1. AdmissionFrame
    BY <1>0, <1>2 DEF AdmissionFrame, PopFront
  <2>2. CallerInv'
    BY Zenon, <1>2 DEF CallerInv
  <2> QED
    BY Zenon, <2>1, <2>2
<1>3. CASE DropOldestOwn(c)
  BY <1>0, <1>2, <1>3 DEF DropOldestOwn, OverPeerCap
<1>4. ASSUME NEW q \in Peers, EvictLargest(c, q) PROVE AdmissionFrame /\ CallerInv'
  BY <1>0, <1>2, <1>4 DEF EvictLargest
<1>5. CASE RejectOversize(c) \/ RejectGlobal(c)
  <2>1. EnqueueReturn(c) /\ UNCHANGED <<queueVars, wakeVars, workerVars>> /\ mutex = c /\ caller[c] = "admit"
    BY <1>0, <1>5 DEF RejectOversize, RejectGlobal
  <2>2. AdmissionFrame
    BY Zenon, <1>0, <2>1 DEF AdmissionFrame, EnqueueReturn
  <2>3. CallerInv'
    BY <1>0, <2>1 DEF CallerInv, EnqueueReturn
  <2> QED
    BY <2>2, <2>3
<1> QED
  BY <1>1, <1>3, <1>4, <1>5 DEF Admission

-----------------------------------------------------------------------------
(* The control invariant is inductive *)

LEMMA AdmissionStep ==
  ASSUME ControlInv, NEW c \in Callers, Admission(c)
  PROVE  ControlInv'
<1>1. AdmissionFrame /\ CallerInv'
  BY AdmissionKeepsFrame DEF ControlInv
<1>2. TypeOK'
  BY SMTT(40), EnqueueType, CallerType DEF ControlInv, Admission, CallerStep
<1>3. EntryInv'
  BY <1>1 DEF ControlInv, EntryInv, HasWorker, AdmissionFrame
<1>4. WorkerInv'
  BY ZenonT(60), <1>1, OutboundConfig DEF ControlInv, WorkerInv, AdmissionFrame
<1>5. OneWorker'
  BY SMTT(40), <1>1 DEF ControlInv, OneWorker, CallerInv, AdmissionFrame
<1>6. \A d \in Callers, q \in Peers : OwesWake(d, q) => OwesWake(d, q)'
  BY Zenon, <1>1 DEF AdmissionFrame, OwesWake
<1>7. StopInv'
  BY Zenon, <1>1, <1>6 DEF ControlInv, StopInv, AdmissionFrame
<1>8. ItemsInv'
  BY <1>1, <1>6 DEF ControlInv, ItemsInv, WillLook, AdmissionFrame
<1> QED
  BY <1>1, <1>2, <1>3, <1>4, <1>5, <1>7, <1>8 DEF ControlInv

LEMMA WorkerStaysStep ==
  ASSUME ControlInv, NEW p \in Peers, WorkerStep(p), ~CheckRemove(p)
  PROVE  ControlInv'
<1>1. WorkerFrame(p) /\ SeesStop(p) /\ SeesItems(p) /\ HoldsAsWorker(p)
  BY WorkerKeepsFrame DEF ControlInv, KeepsFrame
<1>2. TypeOK'
  BY Zenon, WorkerType DEF ControlInv
<1>3. CallerInv'
  BY SMTT(40), <1>1, OutboundConfig DEF ControlInv, CallerInv, WorkerFrame
<1>4. EntryInv'
  BY Zenon, <1>1 DEF ControlInv, EntryInv, HasWorker, WorkerFrame
<1>5. WorkerInv'
  BY ZenonT(60), <1>1, OutboundConfig DEF ControlInv, WorkerInv, WorkerFrame, HoldsAsWorker
<1>6. OneWorker'
  <2>1. \A d \in Callers : caller[d] = "spawn" => target[d] \in Peers /\ target[d] # p
    BY SMTT(40), <1>1 DEF ControlInv, OneWorker, CallerInv, WorkerFrame
  <2>2. \A q \in Peers : q # p => worker'[q] = worker[q]
    BY Zenon, <1>1 DEF WorkerFrame
  <2>3. UNCHANGED <<entry, caller, target, live>>
    BY Zenon, <1>1 DEF WorkerFrame
  <2> QED
    BY Zenon, <2>1, <2>2, <2>3 DEF ControlInv, OneWorker
<1>0. \A d \in Callers, q \in Peers : OwesWake(d, q)' = OwesWake(d, q)
  BY Zenon, <1>1 DEF WorkerFrame, OwesWake
<1>7. StopInv'
  BY ZenonT(60), <1>0, <1>1 DEF ControlInv, StopInv, WorkerFrame, SeesStop
<1>8. ItemsInv'
  <2> SUFFICES ASSUME NEW q \in Peers, items'[q] # <<>> PROVE WillLook(q)'
    BY Zenon DEF ItemsInv
  <2>1. CASE q = p
    BY Zenon, <1>0, <1>1, <2>1 DEF ControlInv, ItemsInv, WillLook, WorkerFrame, SeesItems
  <2>2. CASE q # p
    BY <1>0, <1>1, <2>2 DEF ControlInv, ItemsInv, WillLook, WorkerFrame
  <2> QED
    BY <2>1, <2>2
<1> QED
  BY <1>2, <1>3, <1>4, <1>5, <1>6, <1>7, <1>8 DEF ControlInv

\* Removing an entry: nobody is about to spawn for it, as its worker runs.
LEMMA RemoveStep ==
  ASSUME ControlInv, NEW p \in Peers, CheckRemove(p)
  PROVE  ControlInv'
<1>1. TypeOK'
  BY Zenon, WorkerType DEF ControlInv, WorkerStep
<1>2. \A d \in Callers : caller[d] # "admit" /\ (caller[d] = "spawn" => target[d] # p)
  BY OutboundConfig DEF ControlInv, CallerInv, OneWorker, CheckRemove, Free
<1>3. \A d \in Callers : live'[d] <=> live[d] /\ target[d] # p
  BY Zenon DEF CheckRemove
<1>4. \A q \in Peers : q # p =>
        /\ entry'[q] = entry[q] /\ spawned'[q] = spawned[q] /\ items'[q] = items[q]
        /\ worker'[q] = worker[q] /\ stopped'[q] = stopped[q] /\ permit'[q] = permit[q]
        /\ timers'[q] = timers[q] /\ inFlight'[q] = inFlight[q]
  BY DEF ControlInv, TypeOK, CheckRemove
<1>5. /\ ~entry'[p] /\ items'[p] = <<>> /\ ~spawned'[p] /\ ~stopped'[p] /\ worker'[p] = "none"
      /\ batch[p] = <<>>
  BY ZenonT(60) DEF ControlInv, TypeOK, WorkerInv, CheckRemove
<1>6. UNCHANGED <<mutex, batch, caller, target, object>>
  BY Zenon DEF CheckRemove
<1>7. CallerInv'
  BY ZenonT(60), <1>2, <1>3, <1>4, <1>6 DEF ControlInv, CallerInv
<1>8. EntryInv'
  <2>1. \A q \in Peers : q # p /\ HasWorker(q) => HasWorker(q)'
    BY Zenon, <1>4, <1>6 DEF HasWorker
  <2> QED
    BY Zenon, <1>4, <1>5, <2>1 DEF ControlInv, EntryInv
<1>9. WorkerInv'
  BY Zenon, <1>4, <1>5, <1>6 DEF ControlInv, WorkerInv
<1>10. OneWorker'
  <2> SUFFICES ASSUME NEW c \in Callers, caller'[c] = "spawn"
               PROVE  /\ worker'[target'[c]] = "none" /\ live'[c] /\ entry'[target'[c]]
                      /\ \A d \in Callers : caller'[d] = "spawn" /\ target'[d] = target'[c] => d = c
    BY Zenon DEF OneWorker
  <2>1. caller[c] = "spawn" /\ target[c] \in Peers /\ target[c] # p
    BY Zenon, <1>2, <1>6 DEF ControlInv, CallerInv
  <2>2. /\ worker[target[c]] = "none" /\ live[c] /\ entry[target[c]]
        /\ \A d \in Callers : caller[d] = "spawn" /\ target[d] = target[c] => d = c
    BY Zenon, <2>1 DEF ControlInv, OneWorker
  <2> QED
    BY Zenon, <2>1, <2>2, <1>3, <1>4, <1>6
<1>0. \A d \in Callers, q \in Peers : q # p => OwesWake(d, q)' = OwesWake(d, q)
  BY Zenon, <1>3, <1>6 DEF OwesWake
<1>11. StopInv'
  BY Zenon, <1>0, <1>4, <1>5 DEF ControlInv, StopInv
<1>12. ItemsInv'
  BY Zenon, <1>0, <1>4, <1>5 DEF ControlInv, ItemsInv, WillLook
<1> QED
  BY <1>1, <1>7, <1>8, <1>9, <1>10, <1>11, <1>12 DEF ControlInv

\* The push decides under the lock whether a worker must be spawned, and the
\* caller owes the entry a notify in either case.
LEMMA PushStep ==
  ASSUME ControlInv, NEW c \in Callers, Push(c)
  PROVE  ControlInv'
<1> USE DEF wakeVars, workerVars, callerVars, queueVars, historyVars
<1>1. TypeOK'
  BY Zenon, CallerType DEF ControlInv, CallerStep
<1>2. /\ target[c] \in Peers /\ mutex = c /\ live[c] /\ entry[target[c]]
  BY ZenonT(60) DEF ControlInv, CallerInv, Push
<1>3. /\ caller'[c] = (IF spawned[target[c]] THEN "notify" ELSE "spawn")
      /\ \A d \in Callers : d # c => caller'[d] = caller[d] /\ caller[d] # "admit"
      /\ spawned'[target[c]]
      /\ \A q \in Peers : q # target[c] => spawned'[q] = spawned[q] /\ items'[q] = items[q]
      /\ mutex' = NoOne
      /\ UNCHANGED <<entry, inFlight, stopped, permit, timers, worker, batch, target, live>>
  BY SMTT(40), <1>2, OutboundConfig DEF ControlInv, TypeOK, CallerInv, Push, MarkSpawned
<1>4. CallerInv'
  BY ZenonT(60), <1>2, <1>3 DEF ControlInv, CallerInv
<1>5. EntryInv'
  <2>1. \A q \in Peers : HasWorker(q) => HasWorker(q)'
    <3>1. caller[c] = "admit" /\ worker' = worker /\ target' = target
      BY Zenon, <1>3 DEF Push
    <3> QED
      BY Zenon, <1>3, <3>1 DEF HasWorker
  <2>2. ~spawned[target[c]] => HasWorker(target[c])'
    BY Zenon, <1>3 DEF HasWorker
  <2> SUFFICES ASSUME NEW q \in Peers
               PROVE  /\ ~entry'[q] => items'[q] = <<>> /\ ~spawned'[q] /\ ~stopped'[q]
                      /\ items'[q] # <<>> => spawned'[q]
                      /\ worker'[q] # "none" => spawned'[q]
                      /\ spawned'[q] => HasWorker(q)'
    BY Zenon DEF EntryInv
  <2>3. CASE q = target[c]
    BY Zenon, <1>2, <1>3, <2>1, <2>2, <2>3 DEF ControlInv, EntryInv
  <2>4. CASE q # target[c]
    BY <1>3, <2>1, <2>4, ZenonT(40) DEF ControlInv, EntryInv
  <2> QED
    BY Zenon, <2>3, <2>4
<1>6. WorkerInv'
  BY ZenonT(60), <1>2, <1>3, OutboundConfig DEF ControlInv, WorkerInv
<1>7. OneWorker'
  <2>1. \A d \in Callers : d # c /\ caller'[d] = "spawn" =>
          /\ caller[d] = "spawn" /\ target[d] \in Peers
          /\ caller'[c] = "spawn" => target[d] # target[c]
    BY <1>2, <1>3 DEF ControlInv, CallerInv
  <2>2. caller'[c] = "spawn" => worker[target[c]] = "none"
    BY Zenon, <1>2, <1>3 DEF ControlInv, EntryInv
  <2>3. /\ worker' = worker /\ target' = target /\ live' = live /\ entry' = entry
        /\ \A d \in Callers : d # c => caller'[d] = caller[d]
    BY Zenon, <1>3
  <2> SUFFICES ASSUME NEW d \in Callers, caller'[d] = "spawn"
               PROVE  /\ worker'[target'[d]] = "none" /\ live'[d] /\ entry'[target'[d]]
                      /\ \A e \in Callers : caller'[e] = "spawn" /\ target'[e] = target'[d] => e = d
    BY Zenon DEF OneWorker
  <2>4. CASE d = c
    BY Zenon, <1>2, <2>1, <2>2, <2>3, <2>4
  <2>5. CASE d # c
    <3>1. /\ worker[target[d]] = "none" /\ live[d] /\ entry[target[d]]
          /\ \A e \in Callers : caller[e] = "spawn" /\ target[e] = target[d] => e = d
      BY Zenon, <2>1, <2>5 DEF ControlInv, OneWorker
    <3> QED
      BY Zenon, <2>1, <2>3, <2>5, <3>1
  <2> QED
    BY Zenon, <2>4, <2>5
<1>8. OwesWake(c, target[c])'
  BY Zenon, <1>2, <1>3 DEF OwesWake
<1>9. \A d \in Callers, q \in Peers : OwesWake(d, q) => OwesWake(d, q)'
  BY ZenonT(60), <1>3 DEF OwesWake, Push
<1>10. StopInv' /\ ItemsInv'
  BY <1>3, <1>8, <1>9 DEF ControlInv, StopInv, ItemsInv, WillLook
<1> QED
  BY <1>1, <1>4, <1>5, <1>6, <1>7, <1>10 DEF ControlInv

LEMMA SpawnStep ==
  ASSUME ControlInv, NEW c \in Callers, Spawn(c)
  PROVE  ControlInv'
<1> USE DEF wakeVars, workerVars, callerVars, queueVars, historyVars
<1>1. TypeOK'
  BY ZenonT(60), CallerType DEF ControlInv, CallerStep
<1>2. /\ target[c] \in Peers /\ spawned[target[c]] /\ worker[target[c]] = "none"
      /\ \A d \in Callers : caller[d] = "spawn" /\ target[d] = target[c] => d = c
  BY DEF ControlInv, CallerInv, OneWorker, Spawn
<1>3. /\ caller'[c] = "notify" /\ worker'[target[c]] = "parked"
      /\ \A d \in Callers : d # c => caller'[d] = caller[d]
      /\ \A q \in Peers : q # target[c] => worker'[q] = worker[q]
      /\ UNCHANGED <<mutex, entry, items, spawned, inFlight, stopped, permit, timers, batch,
                     target, object, live>>
  BY Zenon, <1>2 DEF ControlInv, TypeOK, Spawn
<1>4. CallerInv'
  BY ZenonT(60), <1>3 DEF ControlInv, CallerInv, Spawn
<1>5. EntryInv'
  BY SMTT(40), <1>2, <1>3 DEF ControlInv, EntryInv, HasWorker
<1>6. WorkerInv'
  BY Zenon, <1>2, <1>3 DEF ControlInv, WorkerInv
<1>7. OneWorker'
  <2>1. \A d \in Callers : caller'[d] = "spawn" =>
          d # c /\ caller[d] = "spawn" /\ target[d] \in Peers /\ target[d] # target[c]
    BY Zenon, <1>2, <1>3 DEF ControlInv, CallerInv
  <2> QED
    BY SMTT(40), <1>3, <2>1 DEF ControlInv, OneWorker
<1>8. \A d \in Callers, q \in Peers : OwesWake(d, q) => OwesWake(d, q)'
  BY Zenon, <1>3 DEF OwesWake
<1>9. StopInv'
  BY ZenonT(60), <1>2, <1>3, <1>8 DEF ControlInv, StopInv
<1>10. ItemsInv'
  BY <1>2, <1>3, <1>8 DEF ControlInv, ItemsInv, WillLook
<1> QED
  BY <1>1, <1>4, <1>5, <1>6, <1>7, <1>9, <1>10 DEF ControlInv

\* The notify a caller owed becomes a permit, if the entry is still there.
LEMMA NotifyStep ==
  ASSUME ControlInv, NEW c \in Callers, NotifyOne(c)
  PROVE  ControlInv'
<1> USE DEF wakeVars, workerVars, callerVars, queueVars, historyVars
<1>1. TypeOK'
  BY ZenonT(60), CallerType DEF ControlInv, CallerStep
<1>2. /\ target[c] \in Peers /\ caller[c] = "notify"
      /\ caller'[c] = "idle"
      /\ \A d \in Callers : d # c =>
           caller'[d] = caller[d] /\ target'[d] = target[d] /\ live'[d] = live[d]
      /\ live[c] => permit'[target[c]]
      /\ \A q \in Peers : permit[q] => permit'[q]
      /\ UNCHANGED <<mutex, entry, items, spawned, inFlight, stopped, timers, worker, batch, object>>
  BY SMTT(40) DEF ControlInv, TypeOK, CallerInv, NotifyOne, WakePermit
<1>3. CallerInv'
  BY ZenonT(60), <1>2 DEF ControlInv, CallerInv
<1>4. EntryInv'
  <2>1. \A q \in Peers : HasWorker(q) => HasWorker(q)'
    BY <1>2 DEF HasWorker
  <2>2. UNCHANGED <<entry, items, spawned, worker>>
    BY <1>2
  <2>3. \A q \in Peers : ~entry[q] => stopped'[q] = stopped[q]
    BY <1>2
  <2> QED
    BY <2>1, <2>2, <2>3, ZenonT(40) DEF ControlInv, EntryInv
<1>5. WorkerInv' /\ OneWorker'
  BY SMTT(40), <1>2 DEF ControlInv, WorkerInv, OneWorker
<1>6. \A d \in Callers, q \in Peers : OwesWake(d, q) => OwesWake(d, q)' \/ permit'[q]
  BY ZenonT(60), <1>2 DEF OwesWake
<1>7. StopInv' /\ ItemsInv'
  BY <1>2, <1>6 DEF ControlInv, StopInv, ItemsInv, WillLook
<1> QED
  BY <1>1, <1>3, <1>4, <1>5, <1>7 DEF ControlInv

LEMMA DropStep ==
  ASSUME ControlInv, NEW c \in Callers, NEW p \in Peers, DropPeer(c, p)
  PROVE  ControlInv'
<1> USE DEF wakeVars, workerVars, callerVars, queueVars, historyVars
<1>1. TypeOK'
  BY StepType DEF ControlInv, Next
<1>2. /\ caller[c] = "idle" /\ entry[p]
      /\ caller'[c] = "notify" /\ target'[c] = p /\ live'[c]
      /\ \A d \in Callers : d # c =>
           caller'[d] = caller[d] /\ target'[d] = target[d] /\ live'[d] = live[d]
      /\ \A q \in Peers : q # p => stopped'[q] = stopped[q]
      /\ UNCHANGED <<mutex, entry, items, spawned, inFlight, permit, timers, worker, batch, object>>
  BY Zenon DEF ControlInv, TypeOK, DropPeer, MarkStopped, WillNotify
<1>3. CallerInv'
  BY ZenonT(60), <1>2 DEF ControlInv, CallerInv
<1>4. EntryInv'
  <2>1. \A q \in Peers : HasWorker(q) => HasWorker(q)'
    BY ZenonT(60), <1>2 DEF HasWorker
  <2>2. UNCHANGED <<entry, items, spawned, worker>>
    BY <1>2
  <2>3. \A q \in Peers : ~entry[q] => stopped'[q] = stopped[q]
    BY ZenonT(60), <1>2
  <2> QED
    BY Zenon, <2>1, <2>2, <2>3 DEF ControlInv, EntryInv
<1>5. WorkerInv' /\ OneWorker'
  BY <1>2 DEF ControlInv, WorkerInv, OneWorker
<1>6. OwesWake(c, p)' /\ \A d \in Callers, q \in Peers : OwesWake(d, q) => OwesWake(d, q)'
  BY ZenonT(60), <1>2 DEF OwesWake
<1>7. StopInv' /\ ItemsInv'
  BY <1>2, <1>6 DEF ControlInv, StopInv, ItemsInv, WillLook
<1> QED
  BY <1>1, <1>3, <1>4, <1>5, <1>7 DEF ControlInv

\* A sleep that ends leaves a permit; nothing else in ControlInv changes.
LEMMA TimerStep ==
  ASSUME ControlInv, NEW p \in Peers, TimerFires(p)
  PROVE  ControlInv'
<1> USE DEF wakeVars, workerVars, callerVars, queueVars, historyVars
<1>1. TypeOK'
  BY StepType DEF ControlInv, Next
<1>2. /\ permit'[p] /\ \A q \in Peers : q # p => permit'[q] = permit[q] /\ timers'[q] = timers[q]
      /\ UNCHANGED <<mutex, entry, items, spawned, inFlight, stopped, worker, batch, caller,
                     target, object, live>>
  BY ZenonT(60) DEF ControlInv, TypeOK, TimerFires
<1>3. CallerInv' /\ EntryInv' /\ WorkerInv' /\ OneWorker'
  BY SMTT(40), <1>2 DEF ControlInv, CallerInv, EntryInv, HasWorker, WorkerInv, OneWorker
<1>4. StopInv' /\ ItemsInv'
  BY ZenonT(60), <1>2 DEF ControlInv, StopInv, ItemsInv, WillLook, OwesWake
<1> QED
  BY <1>1, <1>3, <1>4 DEF ControlInv

-----------------------------------------------------------------------------
(* The theorems *)

LEMMA InitControl == Init => ControlInv
<1> SUFFICES ASSUME Init PROVE ControlInv
  OBVIOUS
<1>1. TypeOK
  BY InitType
<1> QED
  BY <1>1 DEF Init, ControlInv, CallerInv, EntryInv, WorkerInv, OneWorker, StopInv, ItemsInv

LEMMA StepControl == ControlInv /\ [Next]_vars => ControlInv'
<1> SUFFICES ASSUME ControlInv, [Next]_vars PROVE ControlInv'
  OBVIOUS
<1>1. ASSUME NEW c \in Callers, NEW p \in Peers, NEW sz \in Sizes, NEW rt \in Routes,
             EnqueueLock(c, p, sz, rt)
      PROVE  ControlInv'
  BY <1>1, AdmissionStep DEF Admission
<1>2. ASSUME NEW c \in Callers, CallerStep(c) PROVE ControlInv'
  BY <1>2, AdmissionStep, PushStep, SpawnStep, NotifyStep DEF CallerStep, Admission
<1>3. ASSUME NEW p \in Peers, WorkerStep(p) PROVE ControlInv'
  BY ZenonT(60), <1>3, WorkerStaysStep, RemoveStep
<1>4. ASSUME UNCHANGED <<mutex, queueVars, wakeVars, workerVars, callerVars>>, TypeOK'
      PROVE  ControlInv'
  <2>1. /\ UNCHANGED <<mutex, entry, items, spawned, inFlight, stopped, permit, timers>>
        /\ UNCHANGED <<worker, batch, caller, target, object, live>>
    BY Zenon, <1>4 DEF queueVars, wakeVars, workerVars, callerVars
  <2>2. \A c, p : OwesWake(c, p)' = OwesWake(c, p) /\ HasWorker(p)' = HasWorker(p)
    BY Zenon, <2>1 DEF OwesWake, HasWorker
  <2>3. \A p : WillLook(p)' = WillLook(p)
    BY Zenon, <2>1, <2>2 DEF WillLook
  <2>4. CallerInv'
    BY ZenonT(60), <2>1 DEF ControlInv, CallerInv
  <2>5. EntryInv'
    BY ZenonT(60), <2>1, <2>2 DEF ControlInv, EntryInv
  <2>6. WorkerInv'
    BY ZenonT(60), <2>1 DEF ControlInv, WorkerInv
  <2>7. OneWorker'
    BY ZenonT(60), <2>1 DEF ControlInv, OneWorker
  <2>8. StopInv' /\ ItemsInv'
    BY ZenonT(60), <2>1, <2>2, <2>3 DEF ControlInv, StopInv, ItemsInv
  <2> QED
    BY Zenon, <1>4, <2>4, <2>5, <2>6, <2>7, <2>8 DEF ControlInv
<1>5. TypeOK'
  BY StepType DEF ControlInv
<1>6. ASSUME NEW i \in 1..MaxObjects, Expire(i) PROVE ControlInv'
  BY <1>4, <1>5, <1>6 DEF Expire
<1>7. CASE UNCHANGED vars
  BY <1>4, <1>5, <1>7 DEF vars
<1> QED
  BY <1>1, <1>2, <1>3, <1>6, <1>7, DropStep, TimerStep DEF Next

\* ControlInv holds of every reachable state.
THEOREM ControlInvariant == Spec => []ControlInv
<1>1. Init => ControlInv
  BY InitControl
<1>2. ControlInv /\ [Next]_vars => ControlInv'
  BY StepControl
<1> QED
  BY <1>1, <1>2, PTL DEF Spec

\* Type correctness of the queue, for any peers, callers, sizes and caps.
THEOREM TypeCorrect == Spec => []TypeOK
<1>1. ControlInv => TypeOK
  BY ZenonT(60) DEF ControlInv
<1> QED
  BY <1>1, ControlInvariant, PTL

\* No wakeup is lost: a queue that holds an object, or was told to stop, has a
\* worker that is going to look at it.
THEOREM NoWakeupIsLost == Spec => []NoLostWakeup
<1>1. ControlInv => NoLostWakeup
  BY DEF ControlInv, EntryInv, StopInv, ItemsInv, NoLostWakeup, WillLook
<1> QED
  BY <1>1, ControlInvariant, PTL

\* At most one drain worker runs for a peer.
THEOREM AtMostOneWorker == Spec => []OneWorker
<1>1. ControlInv => OneWorker
  BY DEF ControlInv
<1> QED
  BY <1>1, ControlInvariant, PTL

\* wait_idle() never overlooks a batch, and requeue_front() finds its entry.
THEOREM BatchStaysVisible == Spec => []BatchIsVisible
<1>1. ControlInv => BatchIsVisible
  BY OutboundConfig DEF ControlInv, EntryInv, WorkerInv, BatchIsVisible, Free
<1> QED
  BY <1>1, ControlInvariant, PTL

-----------------------------------------------------------------------------
(* Order *)

\* The objects of s stand in the order they were enqueued.
Ordered(s) == \A i, j \in 1..Len(s) : i < j => s[i].id < s[j].id

\* Everything of A was enqueued before everything of B.
Before(A, B) == \A a \in A, b \in B : a < b

LEMMA IdsMember ==
  ASSUME NEW s
  PROVE  /\ \A i \in 1..Len(s) : s[i].id \in Ids(s)
         /\ \A x \in Ids(s) : \E i \in 1..Len(s) : x = s[i].id
  BY DEF Ids

\* The front of an ordered queue is older than the rest of it.
LEMMA PopLine ==
  ASSUME NEW s \in Seq(QueuedObject), s # <<>>, Ordered(s)
  PROVE  /\ Ids(s) = {Head(s).id} \cup Ids(Tail(s))
         /\ Before({Head(s).id}, Ids(Tail(s)))
         /\ Ordered(Tail(s))
<1>1. /\ Len(s) \in Nat \ {0} /\ Head(s) = s[1] /\ Len(Tail(s)) = Len(s) - 1
      /\ \A i \in 1..(Len(s) - 1) : Tail(s)[i] = s[i + 1]
  OBVIOUS
<1>2. Ids(s) \subseteq {Head(s).id} \cup Ids(Tail(s))
  <2>1. ASSUME NEW i \in 1..Len(s), i # 1 PROVE s[i].id \in Ids(Tail(s))
    <3>1. i - 1 \in 1..Len(Tail(s)) /\ i - 1 \in 1..(Len(s) - 1) /\ (i - 1) + 1 = i
      BY <1>1, <2>1
    <3>2. Tail(s)[i - 1] = s[i]
      BY Zenon, <1>1, <3>1
    <3> QED
      BY Zenon, <3>1, <3>2, IdsMember
  <2>2. ASSUME NEW x \in Ids(s) PROVE x = Head(s).id \/ x \in Ids(Tail(s))
    <3>1. PICK i \in 1..Len(s) : x = s[i].id
      BY Zenon, IdsMember
    <3> QED
      BY Zenon, <1>1, <2>1, <3>1
  <2> QED
    BY Zenon, <2>2
<1>3. {Head(s).id} \cup Ids(Tail(s)) \subseteq Ids(s)
  <2>1. ASSUME NEW x \in Ids(Tail(s)) PROVE x \in Ids(s)
    <3>1. PICK i \in 1..Len(Tail(s)) : x = Tail(s)[i].id
      BY Zenon, IdsMember
    <3>2. i + 1 \in 1..Len(s) /\ Tail(s)[i] = s[i + 1]
      BY <1>1, <3>1
    <3> QED
      BY Zenon, <3>1, <3>2, IdsMember
  <2>2. 1 \in 1..Len(s)
    BY <1>1
  <2> QED
    <3>1. s[1].id \in Ids(s)
      BY Zenon, <2>2, IdsMember
    <3> QED
      BY Zenon, <1>1, <2>1, <3>1
<1>4. Before({Head(s).id}, Ids(Tail(s)))
  <2>1. ASSUME NEW x \in Ids(Tail(s)) PROVE Head(s).id < x
    <3>1. PICK i \in 1..Len(Tail(s)) : x = Tail(s)[i].id
      BY Zenon, IdsMember
    <3>2. i + 1 \in 1..Len(s) /\ 1 \in 1..Len(s) /\ 1 < i + 1 /\ Tail(s)[i] = s[i + 1]
      BY <1>1, <3>1
    <3> QED
      BY Zenon, <1>1, <3>1, <3>2 DEF Ordered
  <2> QED
    BY Zenon, <2>1 DEF Before
<1>5. Ordered(Tail(s))
  <2>1. \A i, j \in 1..(Len(s) - 1) : i < j => i + 1 \in 1..Len(s) /\ j + 1 \in 1..Len(s) /\ i + 1 < j + 1
    BY <1>1
  <2> QED
    BY Zenon, <1>1, <2>1 DEF Ordered
<1> QED
  BY Zenon, <1>2, <1>3, <1>4, <1>5

\* push_back of an object younger than the queue.
LEMMA AppendLine ==
  ASSUME NEW s \in Seq(QueuedObject), NEW x \in QueuedObject
  PROVE  /\ Ids(Append(s, x)) = Ids(s) \cup {x.id}
         /\ Ordered(s) /\ Before(Ids(s), {x.id}) => Ordered(Append(s, x))
<1> DEFINE t == Append(s, x)
<1>1. /\ Len(s) \in Nat /\ Len(t) = Len(s) + 1 /\ t[Len(s) + 1] = x
      /\ \A i \in 1..Len(s) : t[i] = s[i]
  OBVIOUS
<1> HIDE DEF t
<1>2. /\ \A i \in 1..Len(t) : i \in 1..Len(s) \/ i = Len(s) + 1
      /\ \A i \in 1..Len(s) : i \in 1..Len(t)
      /\ Len(s) + 1 \in 1..Len(t)
  BY <1>1
<1>3. Ids(t) = Ids(s) \cup {x.id}
  BY Zenon, <1>1, <1>2 DEF Ids
<1>4. ASSUME Ordered(s), Before(Ids(s), {x.id}) PROVE Ordered(t)
  <2>1. \A i, j \in 1..Len(t) : i < j =>
          i \in 1..Len(s) /\ (j \in 1..Len(s) \/ j = Len(s) + 1)
    BY <1>1
  <2>2. \A i \in 1..Len(s) : s[i].id < x.id
    BY Zenon, <1>4 DEF Before, Ids
  <2> QED
    BY Zenon, <1>1, <1>4, <2>1, <2>2 DEF Ordered
<1> QED
  BY Zenon, <1>3, <1>4 DEF t

\* push_front of an object older than the queue.
LEMMA PrependLine ==
  ASSUME NEW s \in Seq(QueuedObject), NEW x \in QueuedObject
  PROVE  /\ Ids(<<x>> \o s) = {x.id} \cup Ids(s)
         /\ Ordered(s) /\ Before({x.id}, Ids(s)) => Ordered(<<x>> \o s)
<1> DEFINE t == <<x>> \o s
<1>1. /\ Len(s) \in Nat /\ Len(t) = Len(s) + 1 /\ t[1] = x
      /\ \A i \in 1..Len(s) : t[i + 1] = s[i]
  <2>1. <<x>> \in Seq(QueuedObject) /\ Len(<<x>>) = 1 /\ Len(s) \in Nat
    OBVIOUS
  <2> QED
    BY <2>1, ConcatProperties
<1> HIDE DEF t
<1>2. /\ \A i \in 1..Len(t) : i = 1 \/ (i - 1 \in 1..Len(s) /\ (i - 1) + 1 = i)
      /\ \A i \in 1..Len(s) : i + 1 \in 1..Len(t)
      /\ 1 \in 1..Len(t)
  BY <1>1
<1>3. Ids(t) = {x.id} \cup Ids(s)
  <2>1. \A i \in 1..Len(t) : t[i] = x \/ \E j \in 1..Len(s) : t[i] = s[j]
    BY Zenon, <1>1, <1>2
  <2>2. ASSUME NEW y \in Ids(t) PROVE y = x.id \/ y \in Ids(s)
    <3>1. PICK i \in 1..Len(t) : y = t[i].id
      BY Zenon, IdsMember
    <3>2. t[i] = x \/ \E j \in 1..Len(s) : t[i] = s[j]
      BY Zenon, <2>1, <3>1
    <3> QED
      BY Zenon, <3>1, <3>2, IdsMember
  <2>3. \A j \in 1..Len(s) : \E i \in 1..Len(t) : t[i] = s[j]
    BY Zenon, <1>1, <1>2
  <2>4. x.id \in Ids(t)
    BY Zenon, <1>1, <1>2, IdsMember
  <2>5. ASSUME NEW y \in Ids(s) PROVE y \in Ids(t)
    <3>1. PICK j \in 1..Len(s) : y = s[j].id
      BY Zenon, IdsMember
    <3>2. PICK i \in 1..Len(t) : t[i] = s[j]
      BY Zenon, <2>3, <3>1
    <3> QED
      BY Zenon, <3>1, <3>2, IdsMember
  <2> QED
    BY Zenon, <2>2, <2>4, <2>5
<1>4. ASSUME Ordered(s), Before({x.id}, Ids(s)) PROVE Ordered(t)
  <2>1. \A i, j \in 1..Len(t) : i < j =>
          /\ j - 1 \in 1..Len(s) /\ (j - 1) + 1 = j
          /\ i = 1 \/ (i - 1 \in 1..Len(s) /\ (i - 1) + 1 = i /\ i - 1 < j - 1)
    BY <1>1
  <2>2. \A i \in 1..Len(s) : x.id < s[i].id
    BY Zenon, <1>4 DEF Before, Ids
  <2>3. ASSUME NEW i \in 1..Len(t), NEW j \in 1..Len(t), i < j PROVE t[i].id < t[j].id
    <3>1. CASE i = 1
      BY Zenon, <1>1, <2>1, <2>2, <2>3, <3>1
    <3>2. CASE i # 1
      <4>1. /\ i - 1 \in 1..Len(s) /\ j - 1 \in 1..Len(s) /\ i - 1 < j - 1
            /\ t[i] = s[i - 1] /\ t[j] = s[j - 1]
        BY Zenon, <1>1, <2>1, <2>3, <3>2
      <4> QED
        BY Zenon, <1>4, <4>1 DEF Ordered
    <3> QED
      BY <3>1, <3>2
  <2> QED
    BY Zenon, <2>3 DEF Ordered
<1> QED
  BY Zenon, <1>3, <1>4 DEF t

\* pop_back: the last of an ordered batch is younger than the rest of it.
LEMMA PopBackLine ==
  ASSUME NEW s \in Seq(QueuedObject), s # <<>>, Ordered(s)
  PROVE  /\ Ids(s) = Ids(SubSeq(s, 1, Len(s) - 1)) \cup {s[Len(s)].id}
         /\ Before(Ids(SubSeq(s, 1, Len(s) - 1)), {s[Len(s)].id})
         /\ Ordered(SubSeq(s, 1, Len(s) - 1))
<1> DEFINE t == SubSeq(s, 1, Len(s) - 1)
<1>1. /\ Len(s) \in Nat \ {0} /\ Len(t) = Len(s) - 1
      /\ \A i \in 1..(Len(s) - 1) : t[i] = s[i]
  <2>1. Len(s) \in Nat \ {0} /\ Len(t) = Len(s) - 1
    BY SeqTypes
  <2> QED
    BY <2>1
<1> HIDE DEF t
<1>2. /\ \A i \in 1..Len(s) : i \in 1..(Len(s) - 1) \/ i = Len(s)
      /\ \A i \in 1..(Len(s) - 1) : i \in 1..Len(s) /\ i < Len(s)
      /\ Len(s) \in 1..Len(s)
  BY <1>1
<1>3. Ids(s) = Ids(t) \cup {s[Len(s)].id}
  BY Zenon, <1>1, <1>2 DEF Ids
<1>4. Before(Ids(t), {s[Len(s)].id})
  <2>1. ASSUME NEW x \in Ids(t) PROVE x < s[Len(s)].id
    <3>1. PICK i \in 1..Len(t) : x = t[i].id
      BY Zenon, IdsMember
    <3>2. i \in 1..Len(s) /\ i < Len(s) /\ Len(s) \in 1..Len(s) /\ t[i] = s[i]
      BY Zenon, <1>1, <1>2, <3>1
    <3> QED
      BY Zenon, <3>1, <3>2 DEF Ordered
  <2> QED
    BY Zenon, <2>1 DEF Before
<1>5. Ordered(t)
  BY Zenon, <1>1, <1>2 DEF Ordered
<1> QED
  BY Zenon, <1>3, <1>4, <1>5 DEF t

LEMMA EmptyLine == Ids(<<>>) = {} /\ Ordered(<<>>)
  BY DEF Ids, Ordered

-----------------------------------------------------------------------------
(* Where objects are *)

\* A batch is older than what is queued behind it, and both are in order.
LineInv ==
  \A p \in Peers :
    Ordered(items[p]) /\ Ordered(batch[p]) /\ Before(Ids(batch[p]), Ids(items[p]))

\* Only the caller that holds the mutex carries an object, the youngest of all.
CarryInv ==
  \A c \in Callers :
    /\ object[c] # NoOne <=> caller[c] = "admit"
    /\ caller[c] = "admit" => object[c].id = next - 1

\* No object is pending for two peers.
ApartInv == \A p, q \in Peers : p # q => Pending(p) \cap Pending(q) = {}

\* What a peer has not seen yet is younger than all it has seen.
ReceiptInv ==
  \A p \in Peers :
    /\ received[p] \subseteq (1..(next - 1)) \ Carried
    /\ \A old \in received[p], x \in Pending(p) : x \in received[p] \/ old < x

\* OnePlaceEach, apart from where in its line an object is.
LedgerInv ==
  /\ 1..(next - 1) = Queued \cup Carried \cup settled
  /\ Queued \cap Carried = {} /\ (Queued \cup Carried) \cap settled = {}

ContentInv == LineInv /\ CarryInv /\ ApartInv /\ LedgerInv /\ ReceiptInv

LEMMA QueuedIs == \A x : x \in Queued <=> \E p \in Peers : x \in Pending(p)
  BY Zenon DEF Queued

LEMMA QueuedIsNext == \A x : x \in Queued' <=> \E p \in Peers : x \in Pending(p)'
  BY Zenon DEF Queued

\* Objects D leave the line of peer q for a reason the code names.
LEMMA Leave ==
  ASSUME ApartInv, LedgerInv, NEW q \in Peers, NEW D,
         \A x : x \in Pending(q) <=> x \in Pending(q)' \/ x \in D,
         \A x \in D : x \notin Pending(q)',
         \A p \in Peers : p # q => Pending(p)' = Pending(p),
         settled' = settled \cup D, UNCHANGED <<object, next>>
  PROVE  ApartInv' /\ LedgerInv'
<1>1. Carried' = Carried
  BY Zenon DEF Carried
<1>2. ApartInv'
  <2>1. \A p \in Peers : \A x \in Pending(p)' : x \in Pending(p)
    BY Zenon
  <2>2. \A p, r \in Peers : p # r => Pending(p)' \cap Pending(r)' = {}
    BY Zenon, <2>1 DEF ApartInv
  <2> QED
    BY Zenon, <2>2 DEF ApartInv
<1>3. \A x \in D : \A p \in Peers : x \notin Pending(p)'
  BY Zenon DEF ApartInv
<1>4. \A x : x \in Queued <=> x \in Queued' \/ x \in D
  <2>1. ASSUME NEW x, x \in Queued PROVE x \in Queued' \/ x \in D
    BY Zenon, <2>1, QueuedIs, QueuedIsNext
  <2>2. ASSUME NEW x, x \in Queued' PROVE x \in Queued
    BY Zenon, <2>2, QueuedIs, QueuedIsNext
  <2>3. ASSUME NEW x, x \in D PROVE x \in Queued
    BY Zenon, <2>3, QueuedIs
  <2> QED
    BY Zenon, <2>1, <2>2, <2>3
<1>5. \A x \in D : x \notin Queued'
  BY Zenon, <1>3, QueuedIsNext
<1>6. 1..(next' - 1) = Queued' \cup Carried' \cup settled'
  <2>1. 1..(next - 1) = Queued \cup Carried \cup settled
    BY Zenon DEF LedgerInv
  <2> QED
    BY Zenon, <1>1, <1>4, <2>1
<1>7. (Queued' \cup Carried') \cap settled' = {}
  <2>1. (Queued \cup Carried) \cap settled = {}
    BY Zenon DEF LedgerInv
  <2>2. \A x \in D : x \notin Carried
    BY Zenon, <1>4 DEF LedgerInv
  <2> QED
    BY Zenon, <1>1, <1>4, <1>5, <2>1, <2>2
<1>8. Queued' \cap Carried' = {}
  BY Zenon, <1>1, <1>4 DEF LedgerInv
<1> QED
  BY Zenon, <1>2, <1>6, <1>7, <1>8 DEF LedgerInv

\* Nothing becomes pending, and nothing is received.
LEMMA Fewer ==
  ASSUME ReceiptInv, \A p \in Peers : \A x \in Pending(p)' : x \in Pending(p),
         UNCHANGED <<received, next, object>>
  PROVE  ReceiptInv'
<1>1. Carried' = Carried
  BY Zenon DEF Carried
<1>2. \A p \in Peers : received'[p] \subseteq (1..(next' - 1)) \ Carried'
  BY Zenon, <1>1 DEF ReceiptInv
<1>3. \A p \in Peers : \A old \in received'[p], x \in Pending(p)' : x \in received'[p] \/ old < x
  BY Zenon DEF ReceiptInv
<1> QED
  BY Zenon, <1>2, <1>3 DEF ReceiptInv

\* Objects are as they were, and nobody begins or ends an admission.
LEMMA StillCarried ==
  ASSUME CarryInv, UNCHANGED <<object, next>>,
         \A c \in Callers : caller'[c] = "admit" <=> caller[c] = "admit"
  PROVE  CarryInv'
  BY Zenon DEF CarryInv

LEMMA LinesNext ==
  ASSUME \A p \in Peers :
           Ordered(items'[p]) /\ Ordered(batch'[p]) /\ Before(Ids(batch'[p]), Ids(items'[p]))
  PROVE  LineInv'
  BY DEF LineInv, Before, Ordered, Ids

\* Nothing the invariant is about moves.
LEMMA Still ==
  ASSUME ContentInv, UNCHANGED <<items, batch, object, next, received, settled>>,
         \A c \in Callers : caller'[c] = "admit" <=> caller[c] = "admit"
  PROVE  ContentInv'
<1>1. \A p : Pending(p)' = Pending(p)
  BY Zenon DEF Pending, Ids
<1>2. Queued' = Queued /\ Carried' = Carried
  BY Zenon, <1>1 DEF Queued, Carried
<1>3. LineInv'
  <2>1. \A p \in Peers :
          Ordered(items'[p]) /\ Ordered(batch'[p]) /\ Before(Ids(batch'[p]), Ids(items'[p]))
    BY Zenon DEF ContentInv, LineInv
  <2> QED
    BY Zenon, <2>1, LinesNext
<1>4. CarryInv'
  BY Zenon, StillCarried DEF ContentInv
<1>5. ApartInv'
  BY Zenon, <1>1 DEF ContentInv, ApartInv
<1>6. LedgerInv'
  BY Zenon, <1>2 DEF ContentInv, LedgerInv
<1>7. ReceiptInv'
  BY Zenon, <1>1, Fewer DEF ContentInv
<1> QED
  BY Zenon, <1>3, <1>4, <1>5, <1>6, <1>7 DEF ContentInv

\* An id is never before itself.
LEMMA NotBeforeItself ==
  ASSUME NEW s \in Seq(QueuedObject), NEW x \in Ids(s)
  PROVE  ~(x < x)
<1>1. x \in 1..MaxObjects
  BY Zenon, IdsType
<1> QED
  BY <1>1

\* The front of a queue goes, and is settled: it is evicted, or stale.
LEMMA SettleFront ==
  ASSUME TypeOK, ContentInv, NEW q \in Peers, items[q] # <<>>, PopFront(q),
         settled' = settled \cup {Head(items[q]).id},
         UNCHANGED <<batch, object, caller, next, received>>
  PROVE  ContentInv'
<1> DEFINE h == Head(items[q]).id
<1>1. /\ items[q] \in Seq(QueuedObject) /\ batch[q] \in Seq(QueuedObject)
      /\ items'[q] = Tail(items[q])
      /\ \A p \in Peers : p # q => items'[p] = items[p]
      /\ Ordered(items[q]) /\ Before(Ids(batch[q]), Ids(items[q]))
  BY Zenon DEF TypeOK, PopFront, ContentInv, LineInv
<1>2. /\ Ids(items[q]) = {h} \cup Ids(items'[q])
      /\ Before({h}, Ids(items'[q]))
      /\ Ordered(items'[q])
  BY Zenon, <1>1, PopLine
<1> HIDE DEF h
<1>3. ~(h < h)
  BY Zenon, <1>1, <1>2, NotBeforeItself
<1>4. h \notin Ids(items'[q]) /\ h \notin Ids(batch[q])
  BY Zenon, <1>1, <1>2, <1>3 DEF Before
<1>5. /\ Pending(q)' = Ids(items'[q]) \cup Ids(batch[q])
      /\ \A p \in Peers : p # q => Pending(p)' = Pending(p)
  BY Zenon, <1>1 DEF Pending, Ids
<1>6. /\ \A x : x \in Pending(q) <=> x \in Pending(q)' \/ x \in {h}
      /\ \A x \in {h} : x \notin Pending(q)'
  BY Zenon, <1>2, <1>4, <1>5 DEF Pending
<1>7. ApartInv' /\ LedgerInv'
  <2>1. settled' = settled \cup {h}
    BY DEF h
  <2>2. ApartInv /\ LedgerInv /\ UNCHANGED <<object, next>>
    BY Zenon DEF ContentInv
  <2> DEFINE D == {h}
  <2>3. /\ \A x : x \in Pending(q) <=> x \in Pending(q)' \/ x \in D
        /\ \A x \in D : x \notin Pending(q)'
        /\ settled' = settled \cup D
    BY Zenon, <1>6, <2>1
  <2> HIDE DEF D
  <2> QED
    BY Zenon, <1>5, <2>2, <2>3, Leave
<1>8. LineInv'
  <2>1. Before(Ids(batch'[q]), Ids(items'[q])) /\ Ordered(items'[q]) /\ Ordered(batch'[q])
    BY Zenon, <1>1, <1>2 DEF Before, ContentInv, LineInv
  <2>2. \A p \in Peers : p # q =>
          Before(Ids(batch'[p]), Ids(items'[p])) /\ Ordered(items'[p]) /\ Ordered(batch'[p])
    BY Zenon, <1>1 DEF ContentInv, LineInv
  <2>3. \A p \in Peers :
          Before(Ids(batch'[p]), Ids(items'[p])) /\ Ordered(items'[p]) /\ Ordered(batch'[p])
    BY Zenon, <2>1, <2>2
  <2> QED
    BY Zenon, <2>3, LinesNext
<1>9. CarryInv'
  BY Zenon, StillCarried DEF ContentInv
<1>10. ReceiptInv'
  BY Zenon, <1>5, <1>6, Fewer DEF ContentInv
<1> QED
  BY Zenon, <1>7, <1>8, <1>9, <1>10 DEF ContentInv

\* While an object is admitted no other is carried.
LEMMA CarriedOne ==
  ASSUME CallerInv, CarryInv, NEW c \in Callers, caller[c] = "admit"
  PROVE  /\ Carried = {object[c].id}
         /\ \A d \in Callers : d # c => object[d] = NoOne /\ caller[d] # "admit"
<1>1. \A d \in Callers : d # c => object[d] = NoOne /\ caller[d] # "admit"
  BY Zenon DEF CallerInv, CarryInv
<1>2. object[c] # NoOne
  BY Zenon DEF CarryInv
<1> QED
  BY Zenon, <1>1, <1>2 DEF Carried

LEMMA CarriedGone ==
  ASSUME TypeOK, CallerInv, CarryInv, NEW c \in Callers, caller[c] = "admit",
         object' = [object EXCEPT ![c] = NoOne], NEW st, st # "admit",
         caller' = [caller EXCEPT ![c] = st]
  PROVE  Carried' = {} /\ CarryInv'
<1>1. \A d \in Callers : object'[d] = NoOne
  <2>1. object \in [Callers -> QueuedObject \cup {NoOne}]
    BY Zenon DEF TypeOK
  <2> QED
    BY Zenon, <2>1, CarriedOne
<1>2. \A d \in Callers : caller'[d] # "admit"
  <2>1. caller \in [Callers -> CallerStates]
    BY Zenon DEF TypeOK
  <2> QED
    BY Zenon, <2>1, CarriedOne
<1> QED
  BY Zenon, <1>1, <1>2 DEF Carried, CarryInv

\* The object admitted is younger than what its peer has seen or is to see.
LEMMA Youngest ==
  ASSUME TypeOK, CallerInv, ContentInv, NEW c \in Callers, caller[c] = "admit", NEW p \in Peers
  PROVE  /\ \A y \in Pending(p) : y < object[c].id
         /\ \A y \in received[p] : y < object[c].id
<1>1. Carried = {next - 1} /\ object[c].id = next - 1
  BY Zenon, CarriedOne DEF ContentInv, CarryInv
<1>2. \A y \in Pending(p) : y \in 1..(next - 1) /\ y # next - 1
  BY Zenon, <1>1, QueuedIs DEF ContentInv, LedgerInv
<1>3. \A y \in received[p] : y \in 1..(next - 1) /\ y # next - 1
  BY Zenon, <1>1 DEF ContentInv, ReceiptInv
<1>4. next \in Int
  BY OutboundConfig DEF TypeOK
<1>5. \A y \in 1..(next - 1) : y # next - 1 => y < next - 1
  BY <1>4
<1> QED
  BY Zenon, <1>1, <1>2, <1>3, <1>5

LEMMA EnqueueContent ==
  ASSUME TypeOK, CallerInv, ContentInv, NEW c \in Callers, NEW p \in Peers, NEW sz \in Sizes,
         NEW rt \in Routes, EnqueueLock(c, p, sz, rt)
  PROVE  ContentInv'
<1> DEFINE new == [id |-> next, size |-> sz, route |-> rt]
<1>1. new # NoOne /\ new.id = next
  BY NewObject, NoObject
<1>2. \A d \in Callers : caller[d] # "admit" /\ object[d] = NoOne
  BY Zenon, OutboundConfig DEF EnqueueLock, Free, CallerInv, ContentInv, CarryInv
<1>3. /\ object \in [Callers -> QueuedObject \cup {NoOne}] /\ caller \in [Callers -> CallerStates]
      /\ next \in Nat \ {0}
  BY OutboundConfig DEF TypeOK
<1>4. /\ object' = [object EXCEPT ![c] = new] /\ caller' = [caller EXCEPT ![c] = "admit"]
      /\ next' = next + 1 /\ UNCHANGED <<items, batch, received, settled>>
  BY DEF EnqueueLock, workerVars
<1> HIDE DEF new
<1>5. /\ object'[c] = new /\ caller'[c] = "admit"
      /\ \A d \in Callers : d # c => object'[d] = NoOne /\ caller'[d] # "admit"
  BY Zenon, <1>2, <1>3, <1>4
<1>6. Carried = {} /\ Carried' = {next}
  BY Zenon, <1>1, <1>2, <1>5 DEF Carried
<1>7. next' - 1 = next
  BY <1>3, <1>4
<1>8. CarryInv'
  BY Zenon, <1>1, <1>5, <1>7 DEF CarryInv
<1>9. \A q : Pending(q)' = Pending(q)
  BY Zenon, <1>4 DEF Pending, Ids
<1>10. Queued' = Queued
  BY Zenon, <1>9 DEF Queued
<1>11. LineInv'
  <2>1. \A q \in Peers :
          Ordered(items'[q]) /\ Ordered(batch'[q]) /\ Before(Ids(batch'[q]), Ids(items'[q]))
    BY Zenon, <1>4 DEF ContentInv, LineInv
  <2> QED
    BY Zenon, <2>1, LinesNext
<1>12. ApartInv'
  BY Zenon, <1>9 DEF ContentInv, ApartInv
<1>13. 1..next = (1..(next - 1)) \cup {next} /\ next \notin 1..(next - 1)
  BY <1>3
<1>14. LedgerInv'
  BY Zenon, <1>4, <1>6, <1>7, <1>10, <1>13 DEF ContentInv, LedgerInv
<1>15. ReceiptInv'
  BY Zenon, <1>4, <1>6, <1>7, <1>9, <1>13 DEF ContentInv, ReceiptInv
<1> QED
  BY Zenon, <1>8, <1>11, <1>12, <1>14, <1>15 DEF ContentInv

\* enqueue() refuses the object.
LEMMA RejectContent ==
  ASSUME TypeOK, CallerInv, ContentInv, NEW c \in Callers, caller[c] = "admit", EnqueueReturn(c),
         settled' = settled \cup {object[c].id}, UNCHANGED <<items, batch, next, received>>
  PROVE  ContentInv'
<1>1. Carried = {object[c].id}
  BY Zenon, CarriedOne DEF ContentInv
<1>2. Carried' = {} /\ CarryInv'
  <2>1. "idle" # "admit"
    OBVIOUS
  <2> QED
    BY Zenon, <2>1, CarriedGone DEF ContentInv, EnqueueReturn
<1>3. \A q : Pending(q)' = Pending(q)
  BY Zenon DEF Pending, Ids
<1>4. Queued' = Queued
  BY Zenon, <1>3 DEF Queued
<1>5. LineInv'
  <2>1. \A q \in Peers :
          Ordered(items'[q]) /\ Ordered(batch'[q]) /\ Before(Ids(batch'[q]), Ids(items'[q]))
    BY Zenon DEF ContentInv, LineInv
  <2> QED
    BY Zenon, <2>1, LinesNext
<1>6. ApartInv'
  BY Zenon, <1>3 DEF ContentInv, ApartInv
<1>7. LedgerInv'
  BY Zenon, <1>1, <1>2, <1>4 DEF ContentInv, LedgerInv
<1>8. ReceiptInv'
  BY Zenon, <1>2, <1>3 DEF ContentInv, ReceiptInv
<1> QED
  BY Zenon, <1>2, <1>5, <1>6, <1>7, <1>8 DEF ContentInv

LEMMA PendingNext == \A q : Pending(q)' = Ids(items'[q]) \cup Ids(batch'[q])
  BY DEF Pending, Ids

\* enqueue() queues the object behind everything older.
LEMMA PushContent ==
  ASSUME TypeOK, CallerInv, ContentInv, NEW c \in Callers, Push(c)
  PROVE  ContentInv'
<1>0. PICK p \in Peers : p = target[c]
  BY Zenon DEF Push, CallerInv
<1>a. PICK x : x = object[c].id
  BY Zenon
<1>1. /\ caller[c] = "admit" /\ object[c] \in QueuedObject
      /\ UNCHANGED <<batch, next, received, settled>>
      /\ items' = [items EXCEPT ![p] = Append(@, object[c])]
      /\ object' = [object EXCEPT ![c] = NoOne]
      /\ caller' = [caller EXCEPT ![c] = IF spawned[p] THEN "notify" ELSE "spawn"]
  BY Zenon, <1>0, <1>a DEF Push, CallerInv, workerVars, historyVars
<1>2. /\ items[p] \in Seq(QueuedObject)
      /\ items'[p] = Append(items[p], object[c])
      /\ \A q \in Peers : q # p => items'[q] = items[q]
  BY Zenon, <1>1 DEF TypeOK
<1>3. Ids(items'[p]) = Ids(items[p]) \cup {x}
  <2>1. Ids(items'[p]) = Ids(items[p]) \cup {object[c].id}
    BY Zenon, <1>1, <1>2, AppendLine
  <2> QED
    BY Zenon, <1>0, <1>a, <2>1
<1>4. /\ \A y \in Pending(p) : y < x
      /\ \A y \in received[p] : y < x
  BY Zenon, <1>0, <1>a, <1>1, Youngest
<1>5. Carried = {x}
  BY Zenon, <1>0, <1>a, <1>1, CarriedOne DEF ContentInv
<1>6. Carried' = {} /\ CarryInv'
  <2> DEFINE st == IF spawned[p] THEN "notify" ELSE "spawn"
  <2>1. st # "admit"
    OBVIOUS
  <2>2. caller' = [caller EXCEPT ![c] = st]
    BY <1>1
  <2> HIDE DEF st
  <2> QED
    BY Zenon, <1>1, <2>1, <2>2, CarriedGone DEF ContentInv
<1>7. Ordered(items'[p])
  <2>1. Before(Ids(items[p]), {x})
    BY Zenon, <1>4 DEF Before, Pending
  <2> QED
    BY Zenon, <1>0, <1>a, <1>1, <1>2, <2>1, AppendLine DEF ContentInv, LineInv
<1>8. /\ \A y : y \in Pending(p)' <=> y \in Pending(p) \/ y = x
      /\ \A q \in Peers : q # p => Pending(q)' = Pending(q)
  BY Zenon, <1>1, <1>2, <1>3, PendingNext DEF Pending
<1>9. \A y : y \in Queued' <=> y \in Queued \/ y = x
  BY Zenon, <1>1, <1>8, QueuedIs, QueuedIsNext
<1>10. \A q \in Peers : x \notin Pending(q)
  BY Zenon, <1>5, QueuedIs DEF ContentInv, LedgerInv
<1>11. LineInv'
  <2>1. Before(Ids(batch'[p]), Ids(items'[p]))
    BY Zenon, <1>1, <1>3, <1>4 DEF Before, Pending, ContentInv, LineInv
  <2>2. \A q \in Peers :
          Ordered(items'[q]) /\ Ordered(batch'[q]) /\ Before(Ids(batch'[q]), Ids(items'[q]))
    BY Zenon, <1>1, <1>2, <1>7, <2>1 DEF ContentInv, LineInv
  <2> QED
    BY Zenon, <2>2, LinesNext
<1>12. ApartInv'
  <2>1. \A q, r \in Peers : q # r => \A y \in Pending(q)' : y \notin Pending(r)'
    <3> SUFFICES ASSUME NEW q \in Peers, NEW r \in Peers, q # r,
                        NEW y, y \in Pending(q)', y \in Pending(r)'
                 PROVE  FALSE
      BY Zenon
    <3>1. \A s \in Peers : s # p => x \notin Pending(s)' /\ Pending(s)' = Pending(s)
      BY Zenon, <1>8, <1>10
    <3>2. y # x
      BY Zenon, <3>1
    <3>3. y \in Pending(q) /\ y \in Pending(r)
      BY Zenon, <1>8, <3>1, <3>2
    <3> QED
      BY Zenon, <3>3 DEF ContentInv, ApartInv
  <2>2. \A q, r \in Peers : q # r => Pending(q)' \cap Pending(r)' = {}
    BY Zenon, <2>1
  <2> QED
    BY Zenon, <2>2 DEF ApartInv
<1>13. LedgerInv'
  <2>1. 1..(next - 1) = Queued' \cup Carried' \cup settled
    BY Zenon, <1>5, <1>6, <1>9 DEF ContentInv, LedgerInv
  <2>2. x \notin settled
    BY Zenon, <1>5 DEF ContentInv, LedgerInv
  <2>3. (Queued' \cup Carried') \cap settled = {}
    BY Zenon, <1>6, <1>9, <2>2 DEF ContentInv, LedgerInv
  <2> QED
    BY Zenon, <1>1, <1>6, <2>1, <2>3 DEF LedgerInv
<1>14. ReceiptInv'
  <2>1. \A q \in Peers : received'[q] \subseteq (1..(next' - 1)) \ Carried'
    BY Zenon, <1>1, <1>6 DEF ContentInv, ReceiptInv
  <2>2. \A q \in Peers : \A old \in received'[q], y \in Pending(q)' : y \in received'[q] \/ old < y
    BY Zenon, <1>1, <1>4, <1>8 DEF ContentInv, ReceiptInv
  <2> QED
    BY Zenon, <2>1, <2>2 DEF ReceiptInv
<1> QED
  BY Zenon, <1>6, <1>11, <1>12, <1>13, <1>14 DEF ContentInv

\* Objects move between a queue and its batch, and the line stays as it is.
LEMMA MoveContent ==
  ASSUME ContentInv, NEW p \in Peers,
         Ids(items'[p]) \cup Ids(batch'[p]) = Ids(items[p]) \cup Ids(batch[p]),
         Ordered(items'[p]), Ordered(batch'[p]), Before(Ids(batch'[p]), Ids(items'[p])),
         \A q \in Peers : q # p => items'[q] = items[q] /\ batch'[q] = batch[q],
         UNCHANGED <<object, caller, next, received, settled>>
  PROVE  ContentInv'
<1>1. \A q \in Peers : Pending(q)' = Pending(q)
  BY Zenon, PendingNext DEF Pending
<1>2. Queued' = Queued /\ Carried' = Carried
  BY Zenon, <1>1 DEF Queued, Carried
<1>3. LineInv'
  <2>1. \A q \in Peers :
          Ordered(items'[q]) /\ Ordered(batch'[q]) /\ Before(Ids(batch'[q]), Ids(items'[q]))
    BY Zenon DEF ContentInv, LineInv
  <2> QED
    BY Zenon, <2>1, LinesNext
<1>4. CarryInv'
  BY Zenon, StillCarried DEF ContentInv
<1>5. ApartInv'
  BY Zenon, <1>1 DEF ContentInv, ApartInv
<1>6. LedgerInv'
  BY Zenon, <1>2 DEF ContentInv, LedgerInv
<1>7. ReceiptInv'
  BY Zenon, <1>1, Fewer DEF ContentInv
<1> QED
  BY Zenon, <1>3, <1>4, <1>5, <1>6, <1>7 DEF ContentInv

LEMMA TakeContent ==
  ASSUME TypeOK, ContentInv, NEW p \in Peers, TakeItem(p)
  PROVE  ContentInv'
<1> DEFINE h == Head(items[p])
<1>1. /\ items[p] # <<>> /\ UNCHANGED <<object, caller, next, received, settled>>
      /\ items' = [items EXCEPT ![p] = Tail(@)]
      /\ batch' = [batch EXCEPT ![p] = Append(@, h)]
  BY Zenon DEF TakeItem, BatchOpen, PopFront, callerVars, historyVars
<1>2. /\ items[p] \in Seq(QueuedObject) /\ batch[p] \in Seq(QueuedObject)
      /\ items'[p] = Tail(items[p]) /\ batch'[p] = Append(batch[p], h)
      /\ \A q \in Peers : q # p => items'[q] = items[q] /\ batch'[q] = batch[q]
      /\ Ordered(items[p]) /\ Ordered(batch[p]) /\ Before(Ids(batch[p]), Ids(items[p]))
  BY Zenon, <1>1 DEF TypeOK, ContentInv, LineInv
<1>3. h \in QueuedObject
  BY <1>1, <1>2, SeqTypes
<1>4. /\ Ids(items[p]) = {h.id} \cup Ids(items'[p])
      /\ Before({h.id}, Ids(items'[p]))
      /\ Ordered(items'[p])
  BY Zenon, <1>1, <1>2, PopLine
<1> HIDE DEF h
<1>5. Before(Ids(batch[p]), {h.id})
  BY Zenon, <1>2, <1>4 DEF Before
<1>6. Ids(batch'[p]) = Ids(batch[p]) \cup {h.id} /\ Ordered(batch'[p])
  BY Zenon, <1>2, <1>3, <1>5, AppendLine
<1>7. Before(Ids(batch'[p]), Ids(items'[p]))
  BY Zenon, <1>2, <1>4, <1>6 DEF Before
<1>8. Ids(items'[p]) \cup Ids(batch'[p]) = Ids(items[p]) \cup Ids(batch[p])
  BY Zenon, <1>4, <1>6
<1> QED
  BY Zenon, <1>1, <1>2, <1>4, <1>6, <1>7, <1>8, MoveContent

LEMMA RequeueContent ==
  ASSUME TypeOK, ContentInv, NEW p \in Peers, RequeueItem(p)
  PROVE  ContentInv'
<1> DEFINE b == batch[p]
           x == b[Len(b)]
           rest == SubSeq(b, 1, Len(b) - 1)
<1>1. /\ b # <<>> /\ UNCHANGED <<object, caller, next, received, settled>>
      /\ items' = [items EXCEPT ![p] = <<x>> \o items[p]]
      /\ batch' = [batch EXCEPT ![p] = rest]
  BY Zenon DEF RequeueItem, Restore, PutBack, callerVars, historyVars
<1>2. /\ items[p] \in Seq(QueuedObject) /\ b \in Seq(QueuedObject)
      /\ items'[p] = <<x>> \o items[p] /\ batch'[p] = rest
      /\ \A q \in Peers : q # p => items'[q] = items[q] /\ batch'[q] = batch[q]
      /\ Ordered(items[p]) /\ Ordered(b) /\ Before(Ids(b), Ids(items[p]))
  BY Zenon, <1>1 DEF TypeOK, ContentInv, LineInv
<1>3. x \in QueuedObject
  BY <1>1, <1>2, SeqTypes
<1>4. Ids(b) = Ids(rest) \cup {x.id} /\ Before(Ids(rest), {x.id}) /\ Ordered(rest)
  BY Zenon, <1>1, <1>2, PopBackLine
<1> HIDE DEF x, rest
<1>5. Before({x.id}, Ids(items[p]))
  BY Zenon, <1>2, <1>4 DEF Before
<1>6. Ids(items'[p]) = {x.id} \cup Ids(items[p]) /\ Ordered(items'[p])
  BY Zenon, <1>2, <1>3, <1>5, PrependLine
<1>7. Before(Ids(rest), Ids(items'[p]))
  BY Zenon, <1>2, <1>4, <1>6 DEF Before
<1>8. Ids(items'[p]) \cup Ids(rest) = Ids(items[p]) \cup Ids(b)
  BY Zenon, <1>4, <1>6
<1> QED
  BY Zenon, <1>1, <1>2, <1>4, <1>6, <1>7, <1>8, MoveContent

\* The queue of a stopped peer goes with everything in it.
LEMMA RemoveContent ==
  ASSUME TypeOK, WorkerInv, ContentInv, NEW p \in Peers, CheckRemove(p)
  PROVE  ContentInv'
<1>1. /\ batch[p] = <<>> /\ items[p] \in Seq(QueuedObject)
      /\ UNCHANGED <<batch, caller, object, next, received>>
      /\ items'[p] = <<>> /\ \A q \in Peers : q # p => items'[q] = items[q]
  <2>1. batch[p] = <<>>
    BY DEF WorkerInv, CheckRemove
  <2> QED
    BY Zenon, <2>1 DEF CheckRemove, TypeOK
<1>2. PICK D : D = Ids(items[p])
  OBVIOUS
<1>3. /\ \A x : x \notin Pending(p)' /\ (x \in Pending(p) <=> x \in D)
      /\ \A q \in Peers : q # p => Pending(q)' = Pending(q)
  BY Zenon, <1>1, <1>2, PendingNext, EmptyLine DEF Pending
<1>4. settled' = settled \cup D
  BY Zenon, <1>2 DEF CheckRemove
<1>5. ApartInv' /\ LedgerInv'
  BY Zenon, <1>1, <1>3, <1>4, Leave DEF ContentInv
<1>6. LineInv'
  <2>1. Before(Ids(batch'[p]), Ids(items'[p])) /\ Ordered(items'[p])
    BY Zenon, <1>1, EmptyLine DEF Before
  <2>2. \A q \in Peers :
          Ordered(items'[q]) /\ Ordered(batch'[q]) /\ Before(Ids(batch'[q]), Ids(items'[q]))
    BY Zenon, <1>1, <2>1 DEF ContentInv, LineInv
  <2> QED
    BY Zenon, <2>2, LinesNext
<1>7. CarryInv'
  BY Zenon, <1>1, StillCarried DEF ContentInv
<1>8. ReceiptInv'
  BY Zenon, <1>1, <1>3, Fewer DEF ContentInv
<1> QED
  BY Zenon, <1>5, <1>6, <1>7, <1>8 DEF ContentInv

\* A request may have reached the peer: the batch is received, or is not.
MayReceive(p) == received' \in {received, [received EXCEPT ![p] = @ \cup Ids(batch[p])]}

LEMMA ReceiveInOrder ==
  ASSUME TypeOK, ContentInv, NEW p \in Peers, MayReceive(p)
  PROVE  /\ \A q \in Peers : q # p => received'[q] = received[q]
         /\ received'[p] = received[p] \/ received'[p] = received[p] \cup Ids(batch[p])
         /\ FirstReceiptInOrderStep
<1>1. received \in [Peers -> SUBSET (1..MaxObjects)]
  BY Zenon DEF TypeOK
<1>2. /\ \A q \in Peers : q # p => received'[q] = received[q]
      /\ received'[p] = received[p] \/ received'[p] = received[p] \cup Ids(batch[p])
  BY Zenon, <1>1 DEF MayReceive
<1>3. \A q \in Peers : \A new \in received'[q] \ received[q] : q = p /\ new \in Pending(p)
  BY Zenon, <1>2 DEF Pending
<1>4. FirstReceiptInOrderStep
  BY Zenon, <1>3 DEF FirstReceiptInOrderStep, ContentInv, ReceiptInv
<1> QED
  BY Zenon, <1>2, <1>4

LEMMA ReceiveKeeps ==
  ASSUME TypeOK, ContentInv, NEW p \in Peers, MayReceive(p), UNCHANGED <<object, next>>,
         \A q \in Peers : \A x \in Pending(q)' : x \in Pending(q)
  PROVE  ReceiptInv'
<1>1. /\ \A q \in Peers : q # p => received'[q] = received[q]
      /\ received'[p] = received[p] \/ received'[p] = received[p] \cup Ids(batch[p])
  BY Zenon, ReceiveInOrder
<1>2. Carried' = Carried
  BY Zenon DEF Carried
<1>3. \A x \in Ids(batch[p]) : x \in 1..(next - 1) /\ x \notin Carried
  <2>1. \A x \in Ids(batch[p]) : x \in Queued
    BY Zenon, QueuedIs DEF Pending
  <2> QED
    BY Zenon, <2>1 DEF ContentInv, LedgerInv
<1>4. \A q \in Peers : received'[q] \subseteq (1..(next' - 1)) \ Carried'
  BY Zenon, <1>1, <1>2, <1>3 DEF ContentInv, ReceiptInv
<1>5. \A q \in Peers : \A old \in received'[q], x \in Pending(q)' : x \in received'[q] \/ old < x
  <2> SUFFICES ASSUME NEW q \in Peers, NEW old \in received'[q], NEW x \in Pending(q),
                      x \notin received'[q]
               PROVE  old < x
    BY Zenon
  <2>1. CASE old \in received[q]
    BY Zenon, <1>1, <2>1 DEF ContentInv, ReceiptInv
  <2>2. CASE old \notin received[q]
    <3>1. q = p /\ received'[p] = received[p] \cup Ids(batch[p]) /\ old \in Ids(batch[p])
      BY Zenon, <1>1, <2>2
    <3>2. x \in Ids(items[p])
      BY Zenon, <3>1 DEF Pending
    <3> QED
      BY Zenon, <3>1, <3>2 DEF ContentInv, LineInv, Before
  <2> QED
    BY Zenon, <2>1, <2>2
<1> QED
  BY Zenon, <1>4, <1>5 DEF ReceiptInv

\* The peer answered for good: the batch is delivered or refused.
LEMMA DispatchContent ==
  ASSUME TypeOK, ContentInv, NEW p \in Peers, MayReceive(p),
         batch' = [batch EXCEPT ![p] = <<>>], settled' = settled \cup Ids(batch[p]),
         UNCHANGED <<items, caller, object, next>>
  PROVE  ContentInv'
<1>1. /\ batch[p] \in Seq(QueuedObject) /\ batch'[p] = <<>>
      /\ \A q \in Peers : q # p => batch'[q] = batch[q]
  BY Zenon DEF TypeOK
<1>2. PICK D : D = Ids(batch[p])
  OBVIOUS
<1>3. Pending(p)' = Ids(items[p]) /\ \A q \in Peers : q # p => Pending(q)' = Pending(q)
  BY Zenon, <1>1, PendingNext, EmptyLine DEF Pending
<1>4. \A x \in D : x \notin Pending(p)'
  BY Zenon, <1>1, <1>2, <1>3, NotBeforeItself DEF ContentInv, LineInv, Before
<1>5. \A x : x \in Pending(p) <=> x \in Pending(p)' \/ x \in D
  BY Zenon, <1>2, <1>3 DEF Pending
<1>6. settled' = settled \cup D
  BY Zenon, <1>2
<1>7. ApartInv' /\ LedgerInv'
  BY Zenon, <1>3, <1>4, <1>5, <1>6, Leave DEF ContentInv
<1>8. LineInv'
  <2>1. Before(Ids(batch'[p]), Ids(items'[p])) /\ Ordered(batch'[p])
    BY Zenon, <1>1, EmptyLine DEF Before
  <2>2. \A q \in Peers :
          Ordered(items'[q]) /\ Ordered(batch'[q]) /\ Before(Ids(batch'[q]), Ids(items'[q]))
    BY Zenon, <1>1, <2>1 DEF ContentInv, LineInv
  <2> QED
    BY Zenon, <2>2, LinesNext
<1>9. CarryInv'
  BY Zenon, StillCarried DEF ContentInv
<1>10. ReceiptInv'
  BY Zenon, <1>3, <1>5, ReceiveKeeps
<1> QED
  BY Zenon, <1>7, <1>8, <1>9, <1>10 DEF ContentInv

\* The request failed, and the batch stays with the worker.
LEMMA TransientContent ==
  ASSUME TypeOK, ContentInv, NEW p \in Peers, MayReceive(p),
         UNCHANGED <<items, batch, caller, object, next, settled>>
  PROVE  ContentInv'
<1>1. \A q \in Peers : Pending(q)' = Pending(q)
  BY Zenon, PendingNext DEF Pending
<1>2. Queued' = Queued /\ Carried' = Carried
  BY Zenon, <1>1 DEF Queued, Carried
<1>3. LineInv'
  <2>1. \A q \in Peers :
          Ordered(items'[q]) /\ Ordered(batch'[q]) /\ Before(Ids(batch'[q]), Ids(items'[q]))
    BY Zenon DEF ContentInv, LineInv
  <2> QED
    BY Zenon, <2>1, LinesNext
<1>4. CarryInv' /\ ApartInv' /\ LedgerInv'
  BY Zenon, <1>1, <1>2, StillCarried DEF ContentInv, ApartInv, LedgerInv
<1>5. ReceiptInv'
  BY Zenon, <1>1, ReceiveKeeps
<1> QED
  BY Zenon, <1>3, <1>4, <1>5 DEF ContentInv

LEMMA InitContent == Init => ContentInv
<1> SUFFICES ASSUME Init PROVE ContentInv
  OBVIOUS
<1>1. /\ \A p \in Peers : items[p] = <<>> /\ batch[p] = <<>> /\ received[p] = {}
      /\ \A c \in Callers : object[c] = NoOne /\ caller[c] = "idle"
      /\ next = 1 /\ settled = {}
  BY Zenon DEF Init
<1>2. \A p \in Peers : Pending(p) = {}
  BY Zenon, <1>1, EmptyLine DEF Pending
<1>3. Queued = {} /\ Carried = {}
  BY Zenon, <1>1, <1>2, QueuedIs DEF Carried
<1>4. 1..(next - 1) = {}
  BY <1>1
<1>5. LineInv
  BY Zenon, <1>1, EmptyLine DEF LineInv, Before
<1>6. CarryInv
  <2>1. "idle" # "admit"
    OBVIOUS
  <2> QED
    BY Zenon, <1>1, <2>1 DEF CarryInv
<1>7. ApartInv /\ LedgerInv
  BY Zenon, <1>1, <1>2, <1>3, <1>4 DEF ApartInv, LedgerInv
<1>8. ReceiptInv
  BY Zenon, <1>1 DEF ReceiptInv
<1> QED
  BY Zenon, <1>5, <1>6, <1>7, <1>8 DEF ContentInv

LEMMA CallerContent ==
  ASSUME ControlInv, ContentInv, NEW c \in Callers, CallerStep(c)
  PROVE  ContentInv'
<1> USE DEF wakeVars, workerVars, callerVars, queueVars, historyVars
<1>0. /\ TypeOK /\ CallerInv /\ caller \in [Callers -> CallerStates]
      /\ caller[c] = "admit" => target[c] \in Peers
  BY Zenon DEF ControlInv, CallerInv, TypeOK
<1>1. CASE DropOldestOwn(c)
  <2>1. PICK q \in Peers : q = target[c]
    BY Zenon, <1>0, <1>1 DEF DropOldestOwn
  <2>2. /\ items[q] # <<>> /\ PopFront(q) /\ settled' = settled \cup {Head(items[q]).id}
        /\ UNCHANGED <<batch, object, caller, next, received>>
    BY Zenon, <1>1, <2>1 DEF DropOldestOwn, OverPeerCap
  <2> QED
    BY Zenon, <1>0, <2>2, SettleFront
<1>2. CASE RejectOversize(c)
  BY Zenon, <1>0, <1>2, RejectContent DEF RejectOversize
<1>3. CASE \E q \in Peers : EvictLargest(c, q)
  <2>1. PICK q \in Peers : EvictLargest(c, q)
    BY <1>3
  <2>2. /\ items[q] # <<>> /\ PopFront(q) /\ settled' = settled \cup {Head(items[q]).id}
        /\ UNCHANGED <<batch, object, caller, next, received>>
    BY Zenon, <2>1 DEF EvictLargest
  <2> QED
    BY Zenon, <1>0, <2>2, SettleFront
<1>4. CASE RejectGlobal(c)
  BY Zenon, <1>0, <1>4, RejectContent DEF RejectGlobal
<1>5. CASE Push(c)
  BY Zenon, <1>0, <1>5, PushContent
<1>6. CASE Spawn(c)
  <2>1. \A d \in Callers : caller'[d] = "admit" <=> caller[d] = "admit"
    BY <1>0, <1>6 DEF Spawn
  <2> QED
    BY Zenon, <1>6, <2>1, Still DEF Spawn
<1>7. CASE NotifyOne(c)
  <2>1. \A d \in Callers : caller'[d] = "admit" <=> caller[d] = "admit"
    BY <1>0, <1>7 DEF NotifyOne
  <2> QED
    BY Zenon, <1>7, <2>1, Still DEF NotifyOne
<1> QED
  BY Zenon, <1>1, <1>2, <1>3, <1>4, <1>5, <1>6, <1>7 DEF CallerStep

\* A worker finds the entry of its peer, so requeue_front() drops nothing.
LEMMA WorkerContent ==
  ASSUME ControlInv, ContentInv, NEW p \in Peers, WorkerStep(p)
  PROVE  ContentInv' /\ FirstReceiptInOrderStep
<1> USE DEF wakeVars, workerVars, callerVars, queueVars, historyVars
<1>0. /\ TypeOK /\ WorkerInv /\ EntryInv
  BY Zenon DEF ControlInv
<1>a. ASSUME UNCHANGED received PROVE FirstReceiptInOrderStep
  BY Zenon, <1>a DEF FirstReceiptInOrderStep
<1>b. ASSUME UNCHANGED <<items, batch, object, caller, next, received, settled>>
      PROVE  ContentInv' /\ FirstReceiptInOrderStep
  BY Zenon, <1>a, <1>b, Still
<1>1. CASE Wake(p)
  BY Zenon, <1>b, <1>1 DEF Wake
<1>2. CASE CheckContinue(p)
  BY Zenon, <1>b, <1>2 DEF CheckContinue
<1>3. CASE CheckRemove(p)
  BY Zenon, <1>0, <1>a, <1>3, RemoveContent DEF CheckRemove
<1>4. CASE TakeLock(p)
  BY Zenon, <1>b, <1>4 DEF TakeLock
<1>5. CASE TakeStale(p)
  <2>1. /\ items[p] # <<>> /\ PopFront(p) /\ settled' = settled \cup {Head(items[p]).id}
        /\ UNCHANGED <<batch, object, caller, next, received>>
    BY Zenon, <1>5 DEF TakeStale, BatchOpen
  <2> QED
    BY Zenon, <1>0, <1>a, <2>1, SettleFront
<1>6. CASE TakeItem(p)
  BY Zenon, <1>0, <1>a, <1>6, TakeContent DEF TakeItem
<1>7. CASE TakeEnd(p)
  BY Zenon, <1>b, <1>7 DEF TakeEnd
<1>8. CASE MarkIdle(p)
  BY Zenon, <1>b, <1>8 DEF MarkIdle
<1>9. CASE DispatchSuccess(p)
  <2>1. MayReceive(p)
    BY Zenon, <1>9 DEF DispatchSuccess, MayReceive
  <2> QED
    BY Zenon, <1>0, <1>9, <2>1, ReceiveInOrder, DispatchContent DEF DispatchSuccess
<1>10. CASE DispatchTerminal(p)
  <2>1. MayReceive(p)
    BY Zenon, <1>10 DEF DispatchTerminal, MayReceive
  <2> QED
    BY Zenon, <1>0, <1>10, <2>1, ReceiveInOrder, DispatchContent DEF DispatchTerminal
<1>11. CASE DispatchTransient(p)
  <2>1. MayReceive(p)
    BY Zenon, <1>11 DEF DispatchTransient, MayReceive
  <2> QED
    BY Zenon, <1>0, <1>11, <2>1, ReceiveInOrder, TransientContent DEF DispatchTransient
<1>12. CASE RequeueLock(p)
  <2>1. entry[p]
    BY <1>0, <1>12 DEF RequeueLock, EntryInv
  <2> QED
    BY Zenon, <1>b, <1>12, <2>1 DEF RequeueLock
<1>13. CASE RequeueItem(p)
  BY Zenon, <1>0, <1>a, <1>13, RequeueContent DEF RequeueItem
<1>14. CASE RequeueEnd(p)
  BY Zenon, <1>b, <1>14 DEF RequeueEnd
<1>15. CASE ClearInFlight(p)
  BY Zenon, <1>b, <1>15 DEF ClearInFlight
<1>16. CASE ArmTimer(p)
  BY Zenon, <1>b, <1>16 DEF ArmTimer
<1> QED
  BY Zenon, <1>1, <1>2, <1>3, <1>4, <1>5, <1>6, <1>7, <1>8, <1>9, <1>10, <1>11, <1>12, <1>13,
     <1>14, <1>15, <1>16 DEF WorkerStep

LEMMA StepContent ==
  ASSUME ControlInv, ContentInv, [Next]_vars
  PROVE  ContentInv' /\ FirstReceiptInOrderStep
<1> USE DEF wakeVars, workerVars, callerVars, queueVars, historyVars
<1>0. TypeOK /\ CallerInv /\ caller \in [Callers -> CallerStates]
  BY Zenon DEF ControlInv, TypeOK
<1>a. ASSUME UNCHANGED received PROVE FirstReceiptInOrderStep
  BY Zenon, <1>a DEF FirstReceiptInOrderStep
<1>1. ASSUME NEW c \in Callers, NEW p \in Peers, NEW sz \in Sizes, NEW rt \in Routes,
             EnqueueLock(c, p, sz, rt)
      PROVE  ContentInv' /\ FirstReceiptInOrderStep
  BY Zenon, <1>0, <1>a, <1>1, EnqueueContent DEF EnqueueLock
<1>2. ASSUME NEW c \in Callers, NEW p \in Peers, DropPeer(c, p)
      PROVE  ContentInv' /\ FirstReceiptInOrderStep
  <2>1. \A d \in Callers : caller'[d] = "admit" <=> caller[d] = "admit"
    BY <1>0, <1>2 DEF DropPeer, WillNotify
  <2> QED
    BY Zenon, <1>a, <1>2, <2>1, Still DEF DropPeer, MarkStopped
<1>3. ASSUME NEW c \in Callers, CallerStep(c) PROVE ContentInv' /\ FirstReceiptInOrderStep
  <2>1. UNCHANGED received
    BY Zenon, <1>3 DEF CallerStep, DropOldestOwn, RejectOversize, EvictLargest, RejectGlobal,
       Push, Spawn, NotifyOne
  <2> QED
    BY Zenon, <1>a, <1>3, <2>1, CallerContent
<1>4. ASSUME NEW p \in Peers, WorkerStep(p) PROVE ContentInv' /\ FirstReceiptInOrderStep
  BY Zenon, <1>4, WorkerContent
<1>5. ASSUME UNCHANGED <<items, batch, object, caller, next, received, settled>>
      PROVE  ContentInv' /\ FirstReceiptInOrderStep
  BY Zenon, <1>a, <1>5, Still
<1>6. ASSUME NEW p \in Peers, TimerFires(p) PROVE ContentInv' /\ FirstReceiptInOrderStep
  BY Zenon, <1>5, <1>6 DEF TimerFires
<1>7. ASSUME NEW i \in 1..MaxObjects, Expire(i) PROVE ContentInv' /\ FirstReceiptInOrderStep
  BY Zenon, <1>5, <1>7 DEF Expire
<1>8. CASE UNCHANGED vars
  BY Zenon, <1>5, <1>8 DEF vars
<1> QED
  BY Zenon, <1>1, <1>2, <1>3, <1>4, <1>6, <1>7, <1>8 DEF Next

\* ContentInv holds of every reachable state.
THEOREM ContentInvariant == Spec => []ContentInv
<1>1. Init => ContentInv
  BY InitContent
<1>2. ControlInv /\ ContentInv /\ [Next]_vars => ContentInv'
  BY StepContent
<1> QED
  BY <1>1, <1>2, ControlInvariant, PTL DEF Spec

\* No object is lost or doubled: each one that entered is at one place, or left
\* for a reason the code names.
THEOREM ObjectsAreConserved == Spec => []OnePlaceEach
<1>1. ControlInv /\ ContentInv => OnePlaceEach
  <2> SUFFICES ASSUME ControlInv, ContentInv PROVE OnePlaceEach
    OBVIOUS
  <2>1. ASSUME NEW p \in Peers PROVE Ids(items[p]) \cap Ids(batch[p]) = {}
    <3>1. items[p] \in Seq(QueuedObject)
      BY Zenon DEF ControlInv, TypeOK
    <3>2. \A x \in Ids(items[p]) : x \notin Ids(batch[p])
      BY Zenon, <3>1, NotBeforeItself DEF ContentInv, LineInv, Before
    <3> QED
      BY Zenon, <3>2
  <2> QED
    BY Zenon, <2>1 DEF ContentInv, LedgerInv, ApartInv, OnePlaceEach
<1> QED
  BY <1>1, ControlInvariant, ContentInvariant, PTL

\* A peer first sees objects in the order they were enqueued.
THEOREM ReceiptsAreInOrder == Spec => FirstReceiptInOrder
<1>1. ControlInv /\ ContentInv /\ [Next]_vars => FirstReceiptInOrderStep
  BY StepContent
<1> QED
  BY <1>1, ControlInvariant, ContentInvariant, PTL DEF Spec, FirstReceiptInOrder

=============================================================================
