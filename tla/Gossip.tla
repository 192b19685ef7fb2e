------------------------------- MODULE Gossip -------------------------------
(***************************************************************************)
(* One signed object travelling through a network of instances:            *)
(* forward_inner() of server/src/federation/forwarder.rs at every instance *)
(* behind a push handler that applies the object once.                     *)
(*                                                                         *)
(* Objects are independent of one another (the dedup-LRU is keyed on the   *)
(* canonical hash), so one object is enough.  Each instance handles        *)
(* several pushes at a time, each in a thread of its own.  Every await and *)
(* every lock boundary of the handler and of forward_inner() ends a step.  *)
(* The outbound queues are reliable here: OutboundQueue models when they   *)
(* are not.                                                                *)
(***************************************************************************)
EXTENDS Integers, Sequences, FiniteSets

CONSTANTS
  Instances,          \* the instances of the network
  Origin,             \* the instance whose user signed the object
  Interested,         \* Interested[i]: the candidates at i, in the order of the query,
                      \* that the peers' filters and age ceilings admit
  K,                  \* ForwardingClass::redundancy_cap()
  Threads,            \* handler threads of an instance
  Classes,            \* the classes the object may have: "move" or "other"
  MaxForgets,         \* bound: LRU entries expired or evicted in a behaviour
  MaxFaults,          \* bound: database faults in a behaviour
  NoOne               \* arrived_from = None

ASSUME GossipConfig ==
  /\ Origin \in Instances
  /\ \A i \in Instances :
       /\ Interested[i] \in Seq(Instances \ {i})
       /\ \A m, n \in DOMAIN Interested[i] : Interested[i][m] = Interested[i][n] => m = n
  /\ K \in Nat /\ MaxForgets \in Nat /\ MaxFaults \in Nat
  /\ Classes \subseteq {"move", "other"}
  /\ NoOne \notin Instances

VARIABLES
  class,     \* the object's ForwardingClass, drawn in Init
  stored,    \* instances whose signed_objects holds the object
  cache,     \* cache[i]: index into lru[i] of the cached entry, 0 for none
  lru,       \* lru[i]: every ForwardingEntry made, as its forwarded_to set
  thread,    \* thread[i][t]: where the thread is
  from,      \* from[i][t]: arrived_from
  mine,      \* mine[i][t]: the entry get_or_init_entry() returned
  sent,      \* sent[i][j]: times i enqueued the object for j
  transit,   \* transit[i][j]: those copies not yet received
  forgets,   \* LRU entries forgotten so far
  faults     \* database faults so far

vars == <<class, stored, cache, lru, thread, from, mine, sent, transit, forgets, faults>>

ThreadStates == {"idle", "apply", "route", "lookup", "insert", "pick"}

AnyThread == CHOOSE t \in Threads : TRUE

\* The originator has stored its own object and calls the forwarder with
\* arrived_from = None; nobody else has seen it.
Init ==
  /\ class \in Classes
  /\ stored = {Origin}
  /\ cache = [i \in Instances |-> 0]
  /\ lru = [i \in Instances |-> <<>>]
  /\ thread = [i \in Instances |->
                [t \in Threads |-> IF i = Origin /\ t = AnyThread THEN "route" ELSE "idle"]]
  /\ from = [i \in Instances |-> [t \in Threads |-> NoOne]]
  /\ mine = [i \in Instances |-> [t \in Threads |-> 0]]
  /\ sent = [i \in Instances |-> [j \in Instances |-> 0]]
  /\ transit = [i \in Instances |-> [j \in Instances |-> 0]]
  /\ forgets = 0
  /\ faults = 0

Goto(i, t, s) == thread' = [thread EXCEPT ![i][t] = s]

\* The handler returns, and its locals are gone.
Return(i, t) ==
  /\ Goto(i, t, "idle")
  /\ from' = [from EXCEPT ![i][t] = NoOne]
  /\ mine' = [mine EXCEPT ![i][t] = 0]

-----------------------------------------------------------------------------
(* The push handler *)

\* Threads are interchangeable: a push takes one that is free.
FreeThread(i) == CHOOSE t \in Threads : thread[i][t] = "idle"

\* A push arrives and the handler looks the hash up outside any transaction.
\* Only moves are offered onwards as duplicates.
AfterLookup(i) ==
  IF i \notin stored THEN "apply"
  ELSE IF class = "move" THEN "route" ELSE "idle"

Receive(i, t, j) ==
  /\ thread[i][t] = "idle"
  /\ t = FreeThread(i)
  /\ transit[j][i] > 0
  /\ transit' = [transit EXCEPT ![j][i] = @ - 1]
  /\ Goto(i, t, AfterLookup(i))
  /\ from' = [from EXCEPT ![i][t] = IF AfterLookup(i) = "idle" THEN NoOne ELSE j]
  /\ UNCHANGED <<class, stored, cache, lru, mine, sent, forgets, faults>>

\* BEGIN IMMEDIATE ... commit.  A second thread that looked the hash up before
\* the first committed finds the edge projected and reports Applied as well.
Apply(i, t) ==
  /\ thread[i][t] = "apply"
  /\ stored' = stored \cup {i}
  /\ Goto(i, t, "route")
  /\ UNCHANGED <<class, cache, lru, from, mine, sent, transit, forgets, faults>>

-----------------------------------------------------------------------------
(* forward_inner() *)

\* peers_interested_in(): nobody is interested, and the fanout is over.
Route(i, t) ==
  /\ thread[i][t] = "route"
  /\ \/ Interested[i] = <<>> /\ Return(i, t)
     \/ Interested[i] # <<>> /\ Goto(i, t, "lookup") /\ UNCHANGED <<from, mine>>
  /\ UNCHANGED <<class, stored, cache, lru, sent, transit, forgets, faults>>

\* The candidate query fails: forward_signed_object() logs it and returns.
RouteFails(i, t) ==
  /\ thread[i][t] = "route"
  /\ faults < MaxFaults
  /\ faults' = faults + 1
  /\ Return(i, t)
  /\ UNCHANGED <<class, stored, cache, lru, sent, transit, forgets>>

\* get_or_init_entry(): the lookup ...
AfterGet(i) == IF cache[i] = 0 THEN "insert" ELSE "pick"

Lookup(i, t) ==
  /\ thread[i][t] = "lookup"
  /\ mine' = [mine EXCEPT ![i][t] = cache[i]]
  /\ Goto(i, t, AfterGet(i))
  /\ UNCHANGED <<class, stored, cache, lru, from, sent, transit, forgets, faults>>

\* ... and the insert that may clobber the entry of a concurrent fanout.
Insert(i, t) ==
  /\ thread[i][t] = "insert"
  /\ lru' = [lru EXCEPT ![i] = Append(@, {})]
  /\ cache' = [cache EXCEPT ![i] = Len(lru[i]) + 1]
  /\ mine' = [mine EXCEPT ![i][t] = Len(lru[i]) + 1]
  /\ Goto(i, t, "pick")
  /\ UNCHANGED <<class, stored, from, sent, transit, forgets, faults>>

\* The loop under the bitset lock: the candidates, in order, that are neither
\* the sender nor marked already, as long as fewer than K bits are set.
Room_TooSmall(bits) == K - 1 - Cardinality(bits)
Room_OffByOne(bits) == K + 1 - Cardinality(bits)
Room(bits) == K - Cardinality(bits)

Eligible(cands, sender, bits) ==
  {n \in DOMAIN cands : cands[n] # sender /\ cands[n] \notin bits}

Picks(cands, sender, bits) ==
  LET open == Eligible(cands, sender, bits)
  IN  {cands[n] : n \in {m \in open : Cardinality({l \in open : l < m}) < Room(bits)}}

\* bs.set(idx) for every pick.
Mark(bits, picks) == bits \cup picks

\* The bits are set under the lock; the enqueues that follow it touch the
\* queues of different peers and are folded into the same step.
PickAndEnqueue(i, t) ==
  LET e == mine[i][t]
      picks == Picks(Interested[i], from[i][t], lru[i][e])
      Sending(c) == [j \in Instances |-> c[j] + (IF j \in picks THEN 1 ELSE 0)]
  IN  /\ thread[i][t] = "pick"
      /\ lru' = [lru EXCEPT ![i][e] = Mark(@, picks)]
      /\ sent' = [sent EXCEPT ![i] = Sending(@)]
      /\ transit' = [transit EXCEPT ![i] = Sending(@)]
      /\ Return(i, t)
      /\ UNCHANGED <<class, stored, cache, forgets, faults>>

\* The cached entry outlives T_PROPAGATE_MAX or is evicted by the size bound:
\* either way the next lookup is a miss.  Fanouts that hold it keep it.
Forget(i) ==
  /\ cache[i] # 0
  /\ forgets < MaxForgets
  /\ forgets' = forgets + 1
  /\ cache' = [cache EXCEPT ![i] = 0]
  /\ UNCHANGED <<class, stored, lru, thread, from, mine, sent, transit, faults>>

-----------------------------------------------------------------------------

Handle(i, t) ==
  \/ Apply(i, t)
  \/ Route(i, t)
  \/ Lookup(i, t)
  \/ Insert(i, t)
  \/ PickAndEnqueue(i, t)

Next ==
  \/ \E i \in Instances, t \in Threads :
       \/ Handle(i, t)
       \/ RouteFails(i, t)
       \/ \E j \in Instances : Receive(i, t, j)
  \/ \E i \in Instances : Forget(i)

\* A handler future is polled until it completes, and the outbound queue
\* delivers: OutboundQueue!EveryObjectSettles, here with a healthy peer.
Fairness ==
  /\ \A i \in Instances, t \in Threads : WF_vars(Handle(i, t))
  /\ \A i, j \in Instances : WF_vars(\E t \in Threads : Receive(i, t, j))

Spec == Init /\ [][Next]_vars /\ Fairness

-----------------------------------------------------------------------------
(* Properties *)

TypeOK ==
  /\ class \in Classes
  /\ stored \subseteq Instances
  /\ lru \in [Instances -> Seq(SUBSET Instances)]
  /\ cache \in [Instances -> Nat]
  /\ \A i \in Instances : cache[i] <= Len(lru[i])
  /\ thread \in [Instances -> [Threads -> ThreadStates]]
  /\ from \in [Instances -> [Threads -> Instances \cup {NoOne}]]
  /\ mine \in [Instances -> [Threads -> Nat]]
  /\ \A i \in Instances, t \in Threads :
       thread[i][t] = "pick" => mine[i][t] \in 1..Len(lru[i])
  /\ sent \in [Instances -> [Instances -> Nat]]
  /\ transit \in [Instances -> [Instances -> Nat]]
  /\ forgets \in 0..MaxForgets
  /\ faults \in 0..MaxFaults

\* No dedup-LRU entry ever marks more than redundancy_cap() peers, whatever
\* fanouts share it.
FanoutCap ==
  \A i \in Instances : \A e \in DOMAIN lru[i] : Cardinality(lru[i][e]) <= K

\* The bits are an exact record: an instance enqueues the object for a peer
\* once for every LRU entry that marks the peer and never otherwise.  A peer
\* is therefore sent the object twice only if the entry was clobbered by a
\* concurrent insert, expired, or was evicted.
OncePerEntry ==
  \A i, j \in Instances :
    sent[i][j] = Cardinality({e \in DOMAIN lru[i] : j \in lru[i][e]})

\* No echo: an instance sends the object to a peer only if it received it
\* from somebody else, so a peer that is the only source never gets it back.
NoEcho ==
  \A i \in Instances \ {Origin}, j \in Instances :
    sent[i][j] > 0 => \E k \in Instances \ {j} : sent[k][i] > transit[k][i]

\* "an originator with more than K interest-matching peers direct-pushes K
\* and lets gossip carry the rest": every instance on a path of interested
\* peers from the origin ends up with the object unless a candidate query fails.
GossipCarriesTheRest == <>(stored = Instances \/ faults > 0)

\* A fanout keeps to its bounds and its books, whatever threads run at once:
\* FanoutCap, OncePerEntry and NoEcho, on top of the types.
FanoutIsBounded == TypeOK /\ FanoutCap /\ OncePerEntry /\ NoEcho
=============================================================================
