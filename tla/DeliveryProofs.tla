--------------------------- MODULE DeliveryProofs ---------------------------
(***************************************************************************)
(* How objects reach other servers, proved for every network and chain.    *)
(*                                                                         *)
(* Pushed (Gossip): FanoutIsBounded, for every network, cap and number of  *)
(* threads.                                                                *)
(*                                                                         *)
(* Pulled (ChainWalk): what a walk delivered lies up to the cursor, and    *)
(* all that could be served throughout and lies up to the cursor was       *)
(* delivered.                                                              *)
(***************************************************************************)
EXTENDS Gossip, ChainWalk, FiniteSetTheorems, TLAPS

-----------------------------------------------------------------------------
(* What a fanout picks.                                                    *)

\* The loop of forward_inner() picks only candidates that are neither the sender nor
\* marked, and no more of them than there is room under redundancy_cap().
LEMMA PicksAreFew ==
  ASSUME NEW S, NEW cands \in Seq(S), NEW sender, NEW bits, IsFiniteSet(bits), K \in Nat,
         Cardinality(bits) <= K
  PROVE  /\ Picks(cands, sender, bits) \subseteq S \ (bits \cup {sender})
         /\ IsFiniteSet(Picks(cands, sender, bits))
         /\ Cardinality(Picks(cands, sender, bits)) <= K - Cardinality(bits)
<1> DEFINE open == Eligible(cands, sender, bits)
           rank == [m \in open |-> Cardinality({l \in open : l < m})]
           R == K - Cardinality(bits)
           first == {m \in open : Cardinality({l \in open : l < m}) < Room(bits)}
<1>0. Cardinality(bits) \in Nat /\ R \in Nat /\ Room(bits) = R
  BY FS_CardinalityType DEF Room
<1>1. open \subseteq 1..Len(cands) /\ Len(cands) \in Nat
  BY DEF Eligible
<1>2. IsFiniteSet(open)
  <2>1. IsFiniteSet(1..Len(cands))
    BY <1>1, FS_Interval
  <2>2. open \in SUBSET (1..Len(cands))
    BY <1>1
  <2> QED
    BY <2>1, <2>2, FS_Subset
<1>3. \A m \in open : IsFiniteSet({l \in open : l < m}) /\ rank[m] \in Nat
  <2> SUFFICES ASSUME NEW m \in open PROVE IsFiniteSet({l \in open : l < m}) /\ rank[m] \in Nat
    BY Zenon
  <2>1. {l \in open : l < m} \in SUBSET open
    OBVIOUS
  <2> QED
    BY <2>1, <1>2, FS_Subset, FS_CardinalityType
\* A later candidate has more candidates before it.
<1>4. \A m, n \in open : m < n => rank[m] < rank[n]
  <2> SUFFICES ASSUME NEW m \in open, NEW n \in open, m < n PROVE rank[m] < rank[n]
    OBVIOUS
  <2> DEFINE A == {l \in open : l < m}
             B == {l \in open : l < n}
  <2>1. A \in SUBSET B /\ m \in B /\ m \notin A /\ IsFiniteSet(B) /\ IsFiniteSet(A)
    BY <1>1, <1>3
  <2>2. Cardinality(A) <= Cardinality(B) /\ Cardinality(A) # Cardinality(B)
    BY <2>1, FS_Subset
  <2>3. rank[m] = Cardinality(A) /\ rank[n] = Cardinality(B)
    OBVIOUS
  <2> HIDE DEF A, B, rank
  <2> QED
    BY <2>1, <2>2, <2>3, FS_CardinalityType
<1>5. IsFiniteSet(first) /\ Cardinality(first) <= R
  <2> DEFINE f == [m \in first |-> rank[m]]
  <2>1. f \in [first -> 0..(R - 1)]
    <3>1. \A m \in first : f[m] = rank[m] /\ rank[m] \in Nat /\ rank[m] < R
      BY <1>0, <1>3, Zenon
    <3> HIDE DEF rank, first, R
    <3> QED
      BY <3>1, <1>0
  <2>2. \A m, n \in first : f[m] = f[n] => m = n
    <3> SUFFICES ASSUME NEW m \in first, NEW n \in first, f[m] = f[n] PROVE m = n
      OBVIOUS
    <3>1. m \in Int /\ n \in Int /\ m \in open /\ n \in open /\ f[m] = rank[m] /\ f[n] = rank[n]
      BY <1>1
    <3>2. rank[m] \in Nat /\ rank[n] \in Nat /\ (m < n => rank[m] < rank[n]) /\ (n < m => rank[n] < rank[m])
      BY <3>1, <1>3, <1>4, Zenon
    <3>3. rank[m] = rank[n]
      BY <3>1
    <3> HIDE DEF rank, open, first, f
    <3> QED
      BY <3>1, <3>2, <3>3
  <2>3. f \in Injection(first, 0..(R - 1))
    BY <2>1, <2>2 DEF Injection, IsInjective
  <2>4. IsFiniteSet(0..(R - 1)) /\ Cardinality(0..(R - 1)) = R
    <3> HIDE DEF R
    <3>1. R - 1 \in Int /\ 0 \in Int
      BY <1>0
    <3>2. /\ IsFiniteSet(0..(R - 1))
          /\ Cardinality(0..(R - 1)) = IF 0 > R - 1 THEN 0 ELSE R - 1 - 0 + 1
      BY <3>1, FS_Interval, Zenon
    <3> QED
      BY <3>2, <1>0
  <2> HIDE DEF f, first
  <2> QED
    BY <2>3, <2>4, FS_Injection
<1>6. Picks(cands, sender, bits) = {cands[n] : n \in first}
  BY DEF Picks
<1>7. IsFiniteSet({cands[n] : n \in first}) /\ Cardinality({cands[n] : n \in first}) <= Cardinality(first)
  <2> DEFINE g == [n \in first |-> cands[n]]
             T == {cands[n] : n \in first}
  <2>1. g \in Surjection(first, T)
    BY Zenon DEF Surjection
  <2> HIDE DEF g, T, first
  <2>2. IsFiniteSet(T) /\ Cardinality(T) <= Cardinality(first)
    BY <2>1, <1>5, FS_Surjection
  <2> QED
    BY <2>2 DEF T
<1>8. \A n \in first : cands[n] \in S \ (bits \cup {sender})
  BY <1>1 DEF Eligible
<1>9. Picks(cands, sender, bits) \subseteq S \ (bits \cup {sender})
  BY <1>6, <1>8, Zenon
<1>10. Cardinality(first) \in Nat /\ Cardinality({cands[n] : n \in first}) \in Nat
  BY <1>5, <1>7, FS_CardinalityType
<1> HIDE DEF first
<1> QED
  BY <1>0, <1>5, <1>6, <1>7, <1>9, <1>10

-----------------------------------------------------------------------------
(* The invariant.                                                          *)

\* FanoutCap, with the finiteness that makes cardinalities mean something.
Capped(marks) == \A e \in DOMAIN marks : IsFiniteSet(marks[e]) /\ Cardinality(marks[e]) <= K

\* The entries that mark peer j.
Marking(marks, j) == {e \in DOMAIN marks : j \in marks[e]}

\* The instance a thread got the object from has a copy delivered.
Heard(i, t) ==
  from[i][t] \in Instances /\ transit[from[i][t]][i] < sent[from[i][t]][i]

Books ==
  /\ \A i \in Instances : Capped(lru[i])
  /\ OncePerEntry /\ NoEcho
  /\ \A i, j \in Instances : transit[i][j] <= sent[i][j]

\* Inductive: NoEcho needs to know that whoever works on the object away from its origin
\* took it from a peer that had sent it.
GossipInv ==
  /\ TypeOK /\ Books
  /\ \A i \in Instances \ {Origin}, t \in Threads : thread[i][t] # "idle" => Heard(i, t)

\* A step that neither marks nor sends nor delivers keeps the books.
LEMMA BooksKept == ASSUME Books, UNCHANGED <<lru, sent, transit>> PROVE Books'
  BY DEF Books, OncePerEntry, NoEcho

LEMMA HeardKept ==
  ASSUME NEW i \in Instances, NEW t \in Threads, UNCHANGED <<sent, transit>>, from'[i][t] = from[i][t], Heard(i, t)
  PROVE  Heard(i, t)'
  BY DEF Heard

\* get_or_init_entry() appends an unmarked entry.
LEMMA InsertBooks ==
  ASSUME TypeOK, Books, NEW i \in Instances, UNCHANGED <<sent, transit>>,
         lru' = [lru EXCEPT ![i] = Append(@, {})]
  PROVE  Books'
<1>1. ASSUME NEW k \in Instances PROVE Capped(lru'[k]) /\ \A j \in Instances : Marking(lru'[k], j) = Marking(lru[k], j)
  <2>1. CASE k # i
    BY <2>1 DEF Books, TypeOK
  <2>2. CASE k = i
    <3>1. lru'[k] = Append(lru[k], {}) /\ lru[k] \in Seq(SUBSET Instances)
      BY <2>2 DEF TypeOK
    <3>2. /\ DOMAIN lru'[k] = DOMAIN lru[k] \cup {Len(lru[k]) + 1}
          /\ \A e \in DOMAIN lru[k] : lru'[k][e] = lru[k][e]
          /\ lru'[k][Len(lru[k]) + 1] = {}
      BY <3>1
    <3>3. Cardinality({}) <= K /\ IsFiniteSet({})
      BY FS_EmptySet, GossipConfig
    <3> QED
      BY <3>2, <3>3 DEF Books, Capped, Marking
  <2> QED
    BY <2>1, <2>2
<1>2. OncePerEntry'
  <2> SUFFICES ASSUME NEW k \in Instances, NEW j \in Instances
               PROVE  sent'[k][j] = Cardinality(Marking(lru'[k], j))
    BY DEF OncePerEntry, Marking
  <2> QED
    BY <1>1 DEF Books, OncePerEntry, Marking
<1> QED
  BY <1>1, <1>2 DEF Books, NoEcho

\* The picks of a fanout are marked and sent together.
LEMMA PickBooks ==
  ASSUME GossipInv, NEW i \in Instances, NEW t \in Threads, PickAndEnqueue(i, t)
  PROVE  /\ Books'
         /\ \A k, j \in Instances : transit[k][j] < sent[k][j] => transit'[k][j] < sent'[k][j]
<1> DEFINE e == mine[i][t]
           bits == lru[i][e]
           picks == Picks(Interested[i], from[i][t], bits)
<1>0. /\ lru \in [Instances -> Seq(SUBSET Instances)] /\ e \in DOMAIN lru[i] /\ bits \subseteq Instances
      /\ sent \in [Instances -> [Instances -> Nat]] /\ transit \in [Instances -> [Instances -> Nat]]
      /\ thread[i][t] = "pick" /\ K \in Nat
  BY GossipConfig DEF GossipInv, TypeOK, PickAndEnqueue
<1>1. IsFiniteSet(bits) /\ Cardinality(bits) <= K
  BY <1>0 DEF GossipInv, Books, Capped
<1>2. /\ picks \subseteq Instances \ (bits \cup {from[i][t]}) /\ IsFiniteSet(picks)
      /\ Cardinality(picks) <= K - Cardinality(bits)
  <2>1. Interested[i] \in Seq(Instances \ {i})
    BY GossipConfig
  <2>2. picks \subseteq (Instances \ {i}) \ (bits \cup {from[i][t]}) /\ IsFiniteSet(picks)
        /\ Cardinality(picks) <= K - Cardinality(bits)
    BY <2>1, <1>0, <1>1, PicksAreFew
  <2> QED
    BY <2>2
<1> HIDE DEF picks
<1>3. /\ lru' = [lru EXCEPT ![i][e] = @ \cup picks]
      /\ sent' = [sent EXCEPT ![i] = [j \in Instances |-> @[j] + (IF j \in picks THEN 1 ELSE 0)]]
      /\ transit' = [transit EXCEPT ![i] = [j \in Instances |-> @[j] + (IF j \in picks THEN 1 ELSE 0)]]
  BY DEF PickAndEnqueue, Mark, picks
<1>4. /\ \A k \in Instances \ {i} : lru'[k] = lru[k] /\ sent'[k] = sent[k] /\ transit'[k] = transit[k]
      /\ DOMAIN lru'[i] = DOMAIN lru[i] /\ lru'[i][e] = bits \cup picks
      /\ \A x \in DOMAIN lru[i] \ {e} : lru'[i][x] = lru[i][x]
      /\ \A j \in Instances : /\ sent'[i][j] = sent[i][j] + (IF j \in picks THEN 1 ELSE 0)
                              /\ transit'[i][j] = transit[i][j] + (IF j \in picks THEN 1 ELSE 0)
  BY <1>0, <1>3
<1>a. ASSUME NEW k \in Instances, NEW j \in Instances
      PROVE  /\ sent[k][j] \in Nat /\ transit[k][j] \in Nat
             /\ \E d \in {0, 1} :
                  /\ sent'[k][j] = sent[k][j] + d /\ transit'[k][j] = transit[k][j] + d
                  /\ d = 1 <=> k = i /\ j \in picks
  <2>1. sent[k][j] \in Nat /\ transit[k][j] \in Nat
    BY <1>0
  <2>2. CASE k = i
    BY <2>1, <2>2, <1>4
  <2>3. CASE k # i
    BY <2>1, <2>3, <1>4
  <2> QED
    BY <2>1, <2>2, <2>3
<1>5. IsFiniteSet(bits \cup picks) /\ Cardinality(bits \cup picks) <= K
  <2>1. bits \cap picks = {}
    BY <1>2
  <2>2. Cardinality(bits \cup picks) = Cardinality(bits) + Cardinality(picks) - 0 /\ IsFiniteSet(bits \cup picks)
    BY <2>1, <1>1, <1>2, FS_Union, FS_EmptySet
  <2>3. Cardinality(bits) \in Nat /\ Cardinality(picks) \in Nat
    BY <1>1, <1>2, FS_CardinalityType
  <2> QED
    BY <2>2, <2>3, <1>0, <1>2
<1>6. \A k \in Instances : Capped(lru'[k])
  BY <1>4, <1>5, ZenonT(40) DEF GossipInv, Books, Capped
<1>7. OncePerEntry'
  <2> SUFFICES ASSUME NEW k \in Instances, NEW j \in Instances
               PROVE  sent'[k][j] = Cardinality(Marking(lru'[k], j))
    BY DEF OncePerEntry, Marking
  <2>1. sent[k][j] = Cardinality(Marking(lru[k], j))
    BY DEF GossipInv, Books, OncePerEntry, Marking
  <2>2. CASE k # i \/ j \notin picks
    <3>1. Marking(lru'[k], j) = Marking(lru[k], j) /\ sent'[k][j] = sent[k][j]
      <4>1. sent'[k][j] = sent[k][j]
        BY <2>2, <1>a
      <4>2. CASE k # i
        BY <4>1, <4>2, <1>4
      <4>3. CASE k = i /\ j \notin picks
        <5>1. \A x \in DOMAIN lru[i] : j \in lru'[i][x] <=> j \in lru[i][x]
          BY <4>3, <1>4
        <5> QED
          BY <5>1, <4>1, <4>3, <1>4 DEF Marking
      <4> QED
        BY <2>2, <4>2, <4>3
    <3> QED
      BY <2>1, <3>1
  <2>3. CASE k = i /\ j \in picks
    <3>1. Marking(lru'[i], j) = Marking(lru[i], j) \cup {e} /\ e \notin Marking(lru[i], j)
      <4>1. e \in DOMAIN lru[i] /\ j \notin bits /\ lru[i][e] = bits
        BY <1>0, <1>2, <2>3
      <4>2. \A x \in DOMAIN lru[i] : j \in lru'[i][x] <=> j \in lru[i][x] \/ x = e
        BY <1>4, <2>3, Zenon
      <4>3. DOMAIN lru'[i] = DOMAIN lru[i]
        BY <1>4
      <4> HIDE DEF e, bits
      <4> QED
        BY <4>1, <4>2, <4>3 DEF Marking
    <3>2. IsFiniteSet(Marking(lru[i], j))
      <4>1. IsFiniteSet(1..Len(lru[i])) /\ DOMAIN lru[i] = 1..Len(lru[i])
        <5>1. Len(lru[i]) \in Int /\ 1 \in Int /\ DOMAIN lru[i] = 1..Len(lru[i])
          BY <1>0
        <5> QED
          BY <5>1, FS_Interval, Zenon
      <4>2. Marking(lru[i], j) \in SUBSET (1..Len(lru[i]))
        BY <4>1 DEF Marking
      <4> QED
        BY <4>1, <4>2, FS_Subset
    <3>3. Cardinality(Marking(lru'[i], j)) = Cardinality(Marking(lru[i], j)) + 1
      BY <3>1, <3>2, FS_AddElement, Zenon
    <3> QED
      BY <3>3, <2>1, <2>3, <1>4
  <2> QED
    BY <2>2, <2>3
<1>8. \A k, j \in Instances : transit'[k][j] <= sent'[k][j]
  <2> SUFFICES ASSUME NEW k \in Instances, NEW j \in Instances PROVE transit'[k][j] <= sent'[k][j]
    OBVIOUS
  <2>1. transit[k][j] <= sent[k][j]
    BY DEF GossipInv, Books
  <2> QED
    BY <2>1, <1>a
<1>9. \A k, j \in Instances : transit[k][j] < sent[k][j] => transit'[k][j] < sent'[k][j]
  BY <1>a
<1>10. NoEcho'
  <2> SUFFICES ASSUME NEW k \in Instances \ {Origin}, NEW j \in Instances, sent'[k][j] > 0
               PROVE  \E l \in Instances \ {j} : sent'[l][k] > transit'[l][k]
    BY DEF NoEcho
  <2>1. CASE sent[k][j] > 0
    <3>1. PICK l \in Instances \ {j} : sent[l][k] > transit[l][k]
      BY <2>1 DEF GossipInv, Books, NoEcho
    <3>2. transit[l][k] < sent[l][k]
      BY <3>1, <1>0
    <3>3. transit'[l][k] < sent'[l][k]
      BY <3>2, <1>9
    <3>4. transit'[l][k] \in Nat /\ sent'[l][k] \in Nat
      BY <1>a
    <3> QED
      BY <3>3, <3>4
  <2>2. CASE ~(sent[k][j] > 0)
    <3>1. k = i /\ j \in picks
      BY <2>2, <1>a
    <3>2. Heard(i, t) /\ from[i][t] # j
      BY <3>1, <1>0, <1>2 DEF GossipInv
    <3>3. transit'[from[i][t]][i] < sent'[from[i][t]][i] /\ from[i][t] \in Instances \ {j}
      BY <3>2, <1>9 DEF Heard
    <3>4. transit'[from[i][t]][i] \in Nat /\ sent'[from[i][t]][i] \in Nat
      BY <3>3, <1>a
    <3> QED
      BY <3>1, <3>3, <3>4
  <2> QED
    BY <2>1, <2>2
<1> QED
  BY <1>6, <1>7, <1>8, <1>9, <1>10 DEF Books

-----------------------------------------------------------------------------
(* Every step keeps it.                                                    *)

\* One thread of one instance changes.
LEMMA OneCell ==
  ASSUME NEW A, NEW B, NEW V, NEW g \in [A -> [B -> V]], NEW a \in A, NEW b \in B, NEW v \in V
  PROVE  /\ [g EXCEPT ![a][b] = v] \in [A -> [B -> V]]
         /\ \A x \in A, y \in B : [g EXCEPT ![a][b] = v][x][y] = IF x = a /\ y = b THEN v ELSE g[x][y]
  OBVIOUS

\* Where the threads are and what they hold.
ThreadTypes ==
  /\ thread \in [Instances -> [Threads -> ThreadStates]]
  /\ from \in [Instances -> [Threads -> Instances \cup {NoOne}]]
  /\ mine \in [Instances -> [Threads -> Nat]]
  /\ \A i \in Instances, t \in Threads :
       thread[i][t] = "pick" => mine[i][t] \in 1..Len(lru[i])

\* A thread that goes anywhere but to the pick.
LEMMA ThreadMoves ==
  ASSUME ThreadTypes, \A i \in Instances : Len(lru'[i]) = Len(lru[i]),
         NEW i \in Instances, NEW t \in Threads, NEW s \in ThreadStates \ {"pick"},
         NEW f \in Instances \cup {NoOne}, NEW e \in Nat,
         thread' = [thread EXCEPT ![i][t] = s],
         from' = [from EXCEPT ![i][t] = f] \/ from' = from,
         mine' = [mine EXCEPT ![i][t] = e] \/ mine' = mine
  PROVE  ThreadTypes'
<1>1. thread' \in [Instances -> [Threads -> ThreadStates]]
  BY OneCell DEF ThreadTypes
<1>2. from' \in [Instances -> [Threads -> Instances \cup {NoOne}]]
  <2>1. CASE from' = [from EXCEPT ![i][t] = f]
    BY <2>1, OneCell DEF ThreadTypes
  <2> QED
    BY <2>1 DEF ThreadTypes
<1>3. /\ mine' \in [Instances -> [Threads -> Nat]]
      /\ \A k \in Instances, u \in Threads : ~(k = i /\ u = t) => mine'[k][u] = mine[k][u]
  <2>1. CASE mine' = [mine EXCEPT ![i][t] = e]
    BY <2>1, OneCell DEF ThreadTypes
  <2> QED
    BY <2>1 DEF ThreadTypes
<1>4. ASSUME NEW k \in Instances, NEW u \in Threads, thread'[k][u] = "pick"
      PROVE  mine'[k][u] \in 1..Len(lru'[k])
  <2>1. ~(k = i /\ u = t)
    BY <1>4 DEF ThreadTypes
  <2>2. thread[k][u] = "pick" /\ mine'[k][u] = mine[k][u]
    BY <1>3, <1>4, <2>1 DEF ThreadTypes
  <2> QED
    BY <2>2 DEF ThreadTypes
<1> QED
  BY <1>1, <1>2, <1>3, <1>4 DEF ThreadTypes

LEMMA TypesStep == ASSUME TypeOK, [Next]_vars PROVE TypeOK'
<1>t. ThreadTypes /\ NoOne \in Instances \cup {NoOne} /\ 0 \in Nat
  BY DEF TypeOK, ThreadTypes
<1>s. {"idle", "apply", "route", "lookup", "insert"} \subseteq ThreadStates \ {"pick"}
  BY DEF ThreadStates
<1>1. ASSUME NEW i \in Instances, NEW t \in Threads, NEW j \in Instances, Receive(i, t, j) PROVE TypeOK'
  <2>1. AfterLookup(i) \in ThreadStates \ {"pick"}
    BY DEF AfterLookup, ThreadStates
  <2>2. transit' \in [Instances -> [Instances -> Nat]]
    <3>1. transit \in [Instances -> [Instances -> Nat]]
      BY DEF TypeOK
    <3>2. transit[j][i] \in Nat /\ transit[j][i] > 0
      BY <1>1, <3>1 DEF Receive
    <3>3. PICK n \in Nat : n = transit[j][i] - 1
      BY <3>2
    <3>4. transit' = [transit EXCEPT ![j][i] = n]
      BY <1>1, <3>3, Zenon DEF Receive
    <3> QED
      BY <3>1, <3>4
  <2>3. /\ lru' = lru /\ mine' = mine /\ thread' = [thread EXCEPT ![i][t] = AfterLookup(i)]
        /\ \E f \in Instances \cup {NoOne} : from' = [from EXCEPT ![i][t] = f]
    BY <1>1, Zenon DEF Receive, Goto
  <2>4. ThreadTypes'
    BY <1>t, <2>1, <2>3, ThreadMoves, Zenon
  <2> QED
    BY <1>1, <2>2, <2>4, Zenon DEF Receive, TypeOK, ThreadTypes
<1>2. ASSUME NEW i \in Instances, NEW t \in Threads, Apply(i, t) PROVE TypeOK'
  <2>1. ThreadTypes'
    BY <1>2, <1>t, <1>s, ThreadMoves, Zenon DEF Apply, Goto
  <2> QED
    BY <1>2, <2>1, Zenon DEF Apply, TypeOK, ThreadTypes
<1>3. ASSUME NEW i \in Instances, NEW t \in Threads, Route(i, t) PROVE TypeOK'
  <2>1. ThreadTypes'
    <3>1. /\ lru' = lru
          /\ \E s \in ThreadStates \ {"pick"} : thread' = [thread EXCEPT ![i][t] = s]
          /\ from' = [from EXCEPT ![i][t] = NoOne] \/ from' = from
          /\ mine' = [mine EXCEPT ![i][t] = 0] \/ mine' = mine
      BY <1>3, <1>s DEF Route, Return, Goto
    <3> QED
      BY <3>1, <1>t, ThreadMoves, Zenon
  <2> QED
    BY <1>3, <2>1, Zenon DEF Route, TypeOK, ThreadTypes
<1>4. ASSUME NEW i \in Instances, NEW t \in Threads, RouteFails(i, t) PROVE TypeOK'
  <2>1. ThreadTypes'
    BY <1>4, <1>t, <1>s, ThreadMoves, Zenon DEF RouteFails, Return, Goto
  <2>2. faults' \in 0..MaxFaults
    <3>1. MaxFaults \in Nat
      BY GossipConfig
    <3>2. faults \in 0..MaxFaults
      BY DEF TypeOK
    <3>3. faults < MaxFaults /\ faults' = faults + 1
      BY <1>4 DEF RouteFails
    <3> QED
      BY <3>1, <3>2, <3>3
  <2> QED
    BY <1>4, <2>1, <2>2, Zenon DEF RouteFails, TypeOK, ThreadTypes
<1>5. ASSUME NEW i \in Instances, NEW t \in Threads, Lookup(i, t) PROVE TypeOK'
  <2>1. cache[i] \in Nat /\ cache[i] <= Len(lru[i])
    BY DEF TypeOK
  <2>2. mine' = [mine EXCEPT ![i][t] = cache[i]] /\ from' = from /\ lru' = lru
    BY <1>5 DEF Lookup
  <2>3. ThreadTypes'
    <3>1. CASE cache[i] = 0
      BY <3>1, <1>5, <1>t, <1>s, <2>1, <2>2, ThreadMoves, Zenon DEF Lookup, Goto, AfterGet
    <3>2. CASE cache[i] # 0
      <4>1. thread' = [thread EXCEPT ![i][t] = "pick"]
        BY <1>5, <3>2 DEF Lookup, Goto, AfterGet
      <4>2. cache[i] \in 1..Len(lru[i])
        BY <2>1, <3>2 DEF TypeOK
      <4> QED
        BY <1>t, <2>1, <2>2, <4>1, <4>2 DEF ThreadTypes, ThreadStates
    <3> QED
      BY <3>1, <3>2
  <2> QED
    BY <1>5, <2>3, Zenon DEF Lookup, TypeOK, ThreadTypes
<1>6. ASSUME NEW i \in Instances, NEW t \in Threads, Insert(i, t) PROVE TypeOK'
  <2> DEFINE n == Len(lru[i]) + 1
  <2>1. lru[i] \in Seq(SUBSET Instances) /\ n \in Nat
    BY DEF TypeOK
  <2>2. Append(lru[i], {}) \in Seq(SUBSET Instances) /\ Len(Append(lru[i], {})) = n
    BY <2>1
  <2>3. /\ lru' \in [Instances -> Seq(SUBSET Instances)] /\ Len(lru'[i]) = n
        /\ \A k \in Instances \ {i} : lru'[k] = lru[k]
    BY <1>6, <2>1, <2>2 DEF Insert, TypeOK
  <2>4. cache' = [cache EXCEPT ![i] = n] /\ mine' = [mine EXCEPT ![i][t] = n] /\ thread' = [thread EXCEPT ![i][t] = "pick"]
    BY <1>6 DEF Insert, Goto
  <2>5. cache' \in [Instances -> Nat] /\ \A k \in Instances : cache'[k] <= Len(lru'[k])
    <3>1. cache' \in [Instances -> Nat]
      BY <2>1, <2>4 DEF TypeOK
    <3>2. ASSUME NEW k \in Instances PROVE cache'[k] <= Len(lru'[k])
      <4>1. CASE k = i
        BY <4>1, <2>1, <2>3, <2>4 DEF TypeOK
      <4>2. CASE k # i
        BY <4>2, <2>3, <2>4 DEF TypeOK
      <4> QED
        BY <4>1, <4>2
    <3> QED
      BY <3>1, <3>2
  <2>6. thread' \in [Instances -> [Threads -> ThreadStates]] /\ mine' \in [Instances -> [Threads -> Nat]]
    BY <2>1, <2>4 DEF TypeOK, ThreadStates
  <2>7. \A k \in Instances, u \in Threads : thread'[k][u] = "pick" => mine'[k][u] \in 1..Len(lru'[k])
    <3> SUFFICES ASSUME NEW k \in Instances, NEW u \in Threads, thread'[k][u] = "pick"
                 PROVE  mine'[k][u] \in 1..Len(lru'[k])
      OBVIOUS
    <3>1. CASE k = i /\ u = t
      BY <3>1, <2>1, <2>3, <2>4 DEF TypeOK
    <3>2. CASE ~(k = i /\ u = t)
      <4>1. mine'[k][u] = mine[k][u] /\ thread[k][u] = "pick"
        BY <3>2, <2>4, ZenonT(40) DEF TypeOK
      <4>2. mine[k][u] \in 1..Len(lru[k])
        BY <4>1 DEF TypeOK
      <4> QED
        BY <4>1, <4>2, <2>1, <2>3
    <3> QED
      BY <3>1, <3>2
  <2> QED
    BY <1>6, <2>3, <2>5, <2>6, <2>7, Zenon DEF Insert, TypeOK
<1>7. ASSUME NEW i \in Instances, NEW t \in Threads, PickAndEnqueue(i, t) PROVE TypeOK'
  <2> DEFINE e == mine[i][t]
             picks == Picks(Interested[i], from[i][t], lru[i][e])
  <2>0. e \in DOMAIN lru[i] /\ lru \in [Instances -> Seq(SUBSET Instances)]
    BY <1>7 DEF PickAndEnqueue, TypeOK
  <2>1. picks \subseteq Instances
    <3>1. Interested[i] \in Seq(Instances \ {i})
      BY GossipConfig
    <3>2. \A n \in DOMAIN Interested[i] : Interested[i][n] \in Instances
      BY <3>1
    <3> QED
      BY <3>2, Zenon DEF Picks, Eligible
  <2> HIDE DEF picks
  <2>2. /\ lru' = [lru EXCEPT ![i][e] = @ \cup picks]
        /\ sent' = [sent EXCEPT ![i] = [j \in Instances |-> @[j] + (IF j \in picks THEN 1 ELSE 0)]]
        /\ transit' = [transit EXCEPT ![i] = [j \in Instances |-> @[j] + (IF j \in picks THEN 1 ELSE 0)]]
    BY <1>7 DEF PickAndEnqueue, Mark, picks
  <2>3. lru' \in [Instances -> Seq(SUBSET Instances)] /\ \A k \in Instances : Len(lru'[k]) = Len(lru[k])
    <3>1. [lru[i] EXCEPT ![e] = @ \cup picks] \in Seq(SUBSET Instances)
          /\ Len([lru[i] EXCEPT ![e] = @ \cup picks]) = Len(lru[i])
      BY <2>0, <2>1
    <3> QED
      BY <2>0, <2>2, <3>1
  <2>4. sent' \in [Instances -> [Instances -> Nat]] /\ transit' \in [Instances -> [Instances -> Nat]]
    <3>1. /\ sent \in [Instances -> [Instances -> Nat]] /\ transit \in [Instances -> [Instances -> Nat]]
      BY DEF TypeOK
    <3>2. ASSUME NEW c \in [Instances -> [Instances -> Nat]], NEW d,
                 d = [c EXCEPT ![i] = [j \in Instances |-> @[j] + (IF j \in picks THEN 1 ELSE 0)]]
          PROVE  d \in [Instances -> [Instances -> Nat]]
      <4>1. [j \in Instances |-> c[i][j] + (IF j \in picks THEN 1 ELSE 0)] \in [Instances -> Nat]
        OBVIOUS
      <4> QED
        BY <3>2, <4>1
    <3> QED
      BY <3>1, <3>2, <2>2
  <2>5. ThreadTypes'
    BY <1>7, <1>t, <1>s, <2>3, ThreadMoves, Zenon DEF PickAndEnqueue, Return, Goto
  <2> QED
    BY <1>7, <2>3, <2>4, <2>5, Zenon DEF PickAndEnqueue, TypeOK, ThreadTypes
<1>8. ASSUME NEW i \in Instances, Forget(i) PROVE TypeOK'
  <2>1. cache' \in [Instances -> Nat] /\ \A k \in Instances : cache'[k] <= Len(lru[k])
    <3>1. \A k \in Instances : Len(lru[k]) \in Nat /\ cache[k] <= Len(lru[k]) /\ cache[k] \in Nat
      BY DEF TypeOK
    <3>2. cache' = [cache EXCEPT ![i] = 0] /\ cache \in [Instances -> Nat]
      BY <1>8 DEF Forget, TypeOK
    <3> QED
      BY <3>1, <3>2
  <2>2. forgets' \in 0..MaxForgets
    BY <1>8, GossipConfig DEF Forget, TypeOK
  <2> QED
    BY <1>8, <2>1, <2>2 DEF Forget, TypeOK
<1>9. CASE UNCHANGED vars
  BY <1>9 DEF vars, TypeOK
<1> QED
  BY <1>1, <1>2, <1>3, <1>4, <1>5, <1>6, <1>7, <1>8, <1>9 DEF Next, Handle

\* A copy is taken off the wire.
LEMMA ReceiveBooks ==
  ASSUME GossipInv, NEW i \in Instances, NEW t \in Threads, NEW j \in Instances, Receive(i, t, j)
  PROVE  /\ Books' /\ transit'[j][i] < sent'[j][i]
         /\ \A k, l \in Instances : transit[k][l] < sent[k][l] => transit'[k][l] < sent'[k][l]
<1>1. /\ lru' = lru /\ sent' = sent /\ transit' = [transit EXCEPT ![j][i] = @ - 1] /\ transit[j][i] > 0
  BY DEF Receive
<1>2. sent \in [Instances -> [Instances -> Nat]] /\ transit \in [Instances -> [Instances -> Nat]]
  BY Zenon DEF GossipInv, TypeOK
<1>3. ASSUME NEW k \in Instances, NEW l \in Instances
      PROVE  /\ sent[k][l] \in Nat /\ transit[k][l] \in Nat /\ transit'[k][l] \in Nat
             /\ transit[k][l] <= sent[k][l] /\ transit'[k][l] <= transit[k][l]
             /\ k = j /\ l = i => transit'[k][l] = transit[k][l] - 1
  <2>1. sent[k][l] \in Nat /\ transit[k][l] \in Nat /\ transit[k][l] <= sent[k][l]
    BY <1>2 DEF GossipInv, Books
  <2>2. CASE k = j /\ l = i
    BY <1>1, <1>2, <2>1, <2>2
  <2>3. CASE ~(k = j /\ l = i)
    BY <1>1, <1>2, <2>1, <2>3
  <2> QED
    BY <2>1, <2>2, <2>3
<1>4. transit'[j][i] < sent'[j][i]
  BY <1>1, <1>3
<1>5. ASSUME NEW k \in Instances, NEW l \in Instances, transit[k][l] < sent[k][l]
      PROVE  transit'[k][l] < sent'[k][l]
  BY <1>1, <1>3, <1>5
<1>6. \A k, l \in Instances : transit'[k][l] <= sent'[k][l]
  BY <1>1, <1>3
<1>7. NoEcho'
  <2> SUFFICES ASSUME NEW k \in Instances \ {Origin}, NEW l \in Instances, sent'[k][l] > 0
               PROVE  \E m \in Instances \ {l} : sent'[m][k] > transit'[m][k]
    BY DEF NoEcho
  <2>1. PICK m \in Instances \ {l} : sent[m][k] > transit[m][k]
    BY <1>1 DEF GossipInv, Books, NoEcho
  <2> QED
    BY <2>1, <1>1, <1>3
<1> QED
  BY <1>1, <1>4, <1>5, <1>6, <1>7 DEF GossipInv, Books, OncePerEntry

LEMMA GossipStep == ASSUME GossipInv, [Next]_vars PROVE GossipInv'
<1>t. TypeOK /\ TypeOK' /\ Books
  BY TypesStep DEF GossipInv
\* A thread that moves on, or returns, keeps what it and the others have heard.
<1>g. ASSUME NEW i \in Instances, NEW t \in Threads, NEW s \in ThreadStates,
             thread[i][t] # "idle", Books',
             \A k, l \in Instances : transit[k][l] < sent[k][l] => transit'[k][l] < sent'[k][l],
             thread' = [thread EXCEPT ![i][t] = s],
             from' = from \/ (s = "idle" /\ from' = [from EXCEPT ![i][t] = NoOne])
      PROVE  GossipInv'
  <2> SUFFICES ASSUME NEW k \in Instances \ {Origin}, NEW u \in Threads, thread'[k][u] # "idle"
               PROVE  Heard(k, u)'
    BY <1>t, <1>g DEF GossipInv
  <2>0. thread'[k][u] = IF k = i /\ u = t THEN s ELSE thread[k][u]
    <3>1. thread \in [Instances -> [Threads -> ThreadStates]] /\ thread' = [thread EXCEPT ![i][t] = s]
      BY <1>g, <1>t DEF TypeOK
    <3> QED
      BY <3>1, OneCell
  <2>1. thread[k][u] # "idle" /\ from'[k][u] = from[k][u]
    <3>1. CASE from' = from
      BY <1>g, <2>0, <3>1
    <3>2. CASE s = "idle" /\ from' = [from EXCEPT ![i][t] = NoOne]
      <4>1. from'[k][u] = IF k = i /\ u = t THEN NoOne ELSE from[k][u]
        <5>1. from \in [Instances -> [Threads -> Instances \cup {NoOne}]] /\ NoOne \in Instances \cup {NoOne}
          BY <1>t DEF TypeOK
        <5> QED
          BY <3>2, <5>1, OneCell
      <4> QED
        BY <2>0, <3>2, <4>1
    <3> QED
      BY <3>1, <3>2, <1>g
  <2>2. Heard(k, u)
    BY <2>1 DEF GossipInv
  <2> QED
    BY <2>1, <2>2, <1>g DEF Heard
<1>s. {"idle", "route", "lookup", "insert", "pick"} \subseteq ThreadStates
  BY DEF ThreadStates
<1>1. ASSUME NEW i \in Instances, NEW t \in Threads, NEW j \in Instances, Receive(i, t, j) PROVE GossipInv'
  <2>1. /\ Books' /\ transit'[j][i] < sent'[j][i]
        /\ \A k, l \in Instances : transit[k][l] < sent[k][l] => transit'[k][l] < sent'[k][l]
    BY <1>1, ReceiveBooks
  <2> SUFFICES ASSUME NEW k \in Instances \ {Origin}, NEW u \in Threads, thread'[k][u] # "idle"
               PROVE  Heard(k, u)'
    BY <1>t, <2>1, Zenon DEF GossipInv
  <2>2. CASE k = i /\ u = t
    <3>1. from'[k][u] = j
      <4>1. AfterLookup(i) # "idle"
        BY <1>1, <1>t, <2>2 DEF Receive, Goto, TypeOK
      <4>2. from' = [from EXCEPT ![i][t] = j]
        BY <1>1, <4>1 DEF Receive
      <4>3. from \in [Instances -> [Threads -> Instances \cup {NoOne}]] /\ j \in Instances \cup {NoOne}
        BY <1>t DEF TypeOK
      <4>4. [from EXCEPT ![i][t] = j][i][t] = j
        BY <4>3, OneCell
      <4> QED
        BY <2>2, <4>2, <4>4
    <3> QED
      BY <3>1, <2>1, <2>2 DEF Heard
  <2>3. CASE ~(k = i /\ u = t)
    <3>1. thread'[k][u] = thread[k][u] /\ from'[k][u] = from[k][u]
      <4>1. PICK f \in Instances \cup {NoOne} : from' = [from EXCEPT ![i][t] = f]
        BY <1>1, Zenon DEF Receive
      <4>2. AfterLookup(i) \in ThreadStates /\ thread' = [thread EXCEPT ![i][t] = AfterLookup(i)]
        BY <1>1 DEF Receive, Goto, AfterLookup, ThreadStates
      <4>3. from'[k][u] = from[k][u]
        BY <4>1, <1>t, <2>3, OneCell DEF TypeOK
      <4>4. thread'[k][u] = thread[k][u]
        BY <4>2, <1>t, <2>3, OneCell DEF TypeOK
      <4> QED
        BY <4>3, <4>4
    <3> QED
      BY <3>1, <2>1 DEF GossipInv, Heard
  <2> QED
    BY <2>2, <2>3
<1>2. ASSUME NEW i \in Instances, NEW t \in Threads, Apply(i, t) PROVE GossipInv'
  BY <1>2, <1>t, <1>s, <1>g, BooksKept, Zenon DEF Apply, Goto
<1>3. ASSUME NEW i \in Instances, NEW t \in Threads, Route(i, t) \/ RouteFails(i, t) PROVE GossipInv'
  <2>1. /\ UNCHANGED <<lru, sent, transit>> /\ thread[i][t] # "idle"
        /\ \E s \in {"idle", "lookup"} :
             /\ thread' = [thread EXCEPT ![i][t] = s]
             /\ from' = from \/ (s = "idle" /\ from' = [from EXCEPT ![i][t] = NoOne])
    BY <1>3 DEF Route, RouteFails, Return, Goto
  <2> QED
    BY <2>1, <1>t, <1>s, <1>g, BooksKept, Zenon
<1>4. ASSUME NEW i \in Instances, NEW t \in Threads, Lookup(i, t) PROVE GossipInv'
  <2>1. AfterGet(i) \in {"insert", "pick"}
    BY DEF AfterGet
  <2> QED
    BY <1>4, <2>1, <1>t, <1>s, <1>g, BooksKept, ZenonT(40) DEF Lookup, Goto
<1>5. ASSUME NEW i \in Instances, NEW t \in Threads, Insert(i, t) PROVE GossipInv'
  <2>1. Books'
    BY <1>5, <1>t, InsertBooks, Zenon DEF Insert
  <2> QED
    BY <1>5, <2>1, <1>s, <1>g, Zenon DEF Insert, Goto
<1>6. ASSUME NEW i \in Instances, NEW t \in Threads, PickAndEnqueue(i, t) PROVE GossipInv'
  <2>1. Books'
    BY <1>6, PickBooks
  <2>2. \A k, l \in Instances : transit[k][l] < sent[k][l] => transit'[k][l] < sent'[k][l]
    BY <1>6, PickBooks
  <2> QED
    BY <1>6, <2>1, <2>2, <1>s, <1>g, Zenon DEF PickAndEnqueue, Return, Goto
<1>7. ASSUME UNCHANGED <<lru, sent, transit, thread, from>> PROVE GossipInv'
  BY <1>7, <1>t, BooksKept DEF GossipInv, Heard
<1> QED
  BY <1>1, <1>2, <1>3, <1>4, <1>5, <1>6, <1>7 DEF Next, Handle, Forget, vars

\* In every network, for every cap and any number of threads: no dedup-LRU entry marks more
\* than redundancy_cap() peers, an instance enqueues the object for a peer exactly once per
\* entry that marks it, and it sends the object to a peer only if somebody else sent it the
\* object (forward_inner(), get_or_init_entry()).
THEOREM FanoutStaysBounded == Spec => []FanoutIsBounded
<1>1. Init => GossipInv
  <2> SUFFICES ASSUME Init PROVE GossipInv
    OBVIOUS
  <2>1. TypeOK
    <3>1. \A i \in Instances : lru[i] = <<>> /\ cache[i] = 0 /\ <<>> \in Seq(SUBSET Instances) /\ Len(<<>>) = 0
      BY DEF Init
    <3>2. lru \in [Instances -> Seq(SUBSET Instances)] /\ \A i \in Instances : cache[i] <= Len(lru[i])
      BY <3>1 DEF Init
    <3>3. thread \in [Instances -> [Threads -> ThreadStates]] /\ \A i \in Instances, t \in Threads : thread[i][t] # "pick"
      BY DEF Init, ThreadStates
    <3>4. stored \subseteq Instances /\ forgets \in 0..MaxForgets /\ faults \in 0..MaxFaults
      BY GossipConfig DEF Init
    <3> QED
      BY <3>2, <3>3, <3>4 DEF Init, TypeOK
  <2>2. Books
    <3>1. \A i \in Instances : DOMAIN lru[i] = {}
      BY DEF Init
    <3>2. \A i, j \in Instances : {e \in DOMAIN lru[i] : j \in lru[i][e]} = {} /\ sent[i][j] = 0 /\ transit[i][j] = 0
      BY <3>1 DEF Init
    <3>3. OncePerEntry
      BY <3>2, FS_EmptySet DEF OncePerEntry
    <3> QED
      BY <3>1, <3>2, <3>3 DEF Books, Capped, NoEcho
  <2>3. \A i \in Instances \ {Origin}, t \in Threads : thread[i][t] = "idle"
    BY DEF Init
  <2> QED
    BY <2>1, <2>2, <2>3 DEF GossipInv
<1>2. GossipInv /\ [Next]_vars => GossipInv'
  BY GossipStep
<1>3. GossipInv => FanoutIsBounded
  BY DEF GossipInv, Books, Capped, FanoutIsBounded, FanoutCap
<1> QED
  BY <1>1, <1>2, <1>3, PTL DEF Spec

-----------------------------------------------------------------------------
(* Walks of a chain.                                                       *)

Row == Nat \X Nat

\* What the walk has delivered lies up to its cursor, and of the rows servable all through
\* it everything up to the cursor is delivered.
WalkerInv ==
  /\ walk \in [pc : {"new", "walking", "probe", "complete", "unknown"},
               cursor : AllRows \cup {NoCursor}, got : [AllRows -> 0..1]]
  /\ walk.pc = "new" => walk.cursor = NoCursor /\ Got = {}
  /\ walk.pc = "walking" =>
       /\ walk.cursor # NoCursor /\ since \cap blank = {}
       /\ \A r \in since : ~Less(walk.cursor, r) => r \in Got
       /\ \A r \in Got : ~Less(walk.cursor, r)
  /\ walk.pc = "probe" => since = {}
  /\ walk.pc = "complete" => since \subseteq Got

\* Every hash owed is still to be looked up or in exactly one of the arrays.
LookInv ==
  /\ look \in [pc : {"new", "reading", "ok", "gone"}, left : SUBSET AllRows,
               objects : SUBSET AllRows, erased : SUBSET AllRows]
  /\ owed \subseteq held /\ owed \subseteq look.left \cup look.objects \cup look.erased
  /\ look.objects \cap look.erased = {}
  /\ look.left \cap (look.objects \cup look.erased) = {}
  /\ look.pc = "new" => look.objects = {} /\ look.erased = {}
  /\ look.pc \in {"ok", "gone"} => look.left = {}

WalkInv ==
  /\ kind \in Kinds /\ held \subseteq AllRows /\ blank \subseteq held /\ since \subseteq held
  /\ Got \subseteq held /\ WalkerInv /\ LookInv

-----------------------------------------------------------------------------
(* The order of the rows.                                                  *)

\* (created_at, hash) orders the rows totally.
LEMMA LessOrder ==
  ASSUME NEW a \in Row, NEW b \in Row, NEW c \in Row
  PROVE  /\ ~Less(a, a)
         /\ Less(a, b) /\ Less(b, c) => Less(a, c)
         /\ a = b \/ Less(a, b) \/ Less(b, a)
  BY DEF Row, Less

\* A row ranks above those before it.
LEMMA RankGrows ==
  ASSUME NEW S \in SUBSET Row, IsFiniteSet(S), NEW a \in S, NEW b \in S, Less(a, b)
  PROVE  Rank(a, S) \in Nat /\ Rank(b, S) \in Nat /\ Rank(a, S) < Rank(b, S)
<1> DEFINE A == {q \in S : Less(q, a)}
           B == {q \in S : Less(q, b)}
<1>1. A \in SUBSET S /\ B \in SUBSET S
  OBVIOUS
<1>2. IsFiniteSet(A) /\ IsFiniteSet(B) /\ Cardinality(A) \in Nat /\ Cardinality(B) \in Nat
  BY <1>1, FS_Subset, FS_CardinalityType
<1>3. a \notin A
  BY LessOrder
<1>4. A \cup {a} \in SUBSET B
  BY LessOrder
<1>5. Cardinality(A \cup {a}) = Cardinality(A) + 1
  BY <1>2, <1>3, FS_AddElement, ZenonT(30)
<1>6. Cardinality(A \cup {a}) <= Cardinality(B)
  <2> HIDE DEF A, B
  <2> QED
    BY <1>2, <1>4, FS_Subset
<1>7. Rank(a, S) = Cardinality(A) /\ Rank(b, S) = Cardinality(B)
  BY DEF Rank
<1> HIDE DEF A, B
<1> QED
  BY <1>2, <1>5, <1>6, <1>7

\* The ranks are counted from 0 to one less than the number of rows.
LEMMA RankBound ==
  ASSUME NEW S \in SUBSET Row, IsFiniteSet(S), NEW a \in S
  PROVE  Rank(a, S) \in 0 .. Cardinality(S) - 1
<1> DEFINE A == {q \in S : Less(q, a)}
<1>1. A \in SUBSET S /\ IsFiniteSet(A) /\ Cardinality(A) \in Nat /\ Cardinality(S) \in Nat
  BY FS_Subset, FS_CardinalityType
<1>2. a \notin A
  BY LessOrder
<1>3. A \cup {a} \in SUBSET S
  OBVIOUS
<1>4. Rank(a, S) = Cardinality(A)
  BY DEF Rank
<1> HIDE DEF A
<1>5. Cardinality(A \cup {a}) = Cardinality(A) + 1
  BY <1>1, <1>2, FS_AddElement, ZenonT(30)
<1>6. Cardinality(A \cup {a}) <= Cardinality(S)
  BY <1>3, FS_Subset
<1> QED
  BY <1>1, <1>4, <1>5, <1>6

\* Every rank below the number of rows is some row's.
LEMMA RankOnto ==
  ASSUME NEW S \in SUBSET Row, IsFiniteSet(S), NEW k \in Nat, k < Cardinality(S)
  PROVE  \E r \in S : Rank(r, S) = k
<1> DEFINE n == Cardinality(S)
           f == [r \in S |-> Rank(r, S)]
<1>1. n \in Nat
  BY FS_CardinalityType
<1>2. f \in [S -> 0 .. n - 1]
  BY RankBound
<1>3. ASSUME NEW a \in S, NEW b \in S, f[a] = f[b] PROVE a = b
  <2>1. Rank(a, S) = Rank(b, S)
    BY <1>3
  <2>2. CASE Less(a, b)
    BY <2>1, <2>2, RankGrows
  <2>3. CASE Less(b, a)
    BY <2>1, <2>3, RankGrows
  <2> QED
    BY <2>2, <2>3, LessOrder
<1>4. f \in Injection(S, 0 .. n - 1)
  BY <1>2, <1>3 DEF Injection, IsInjective
<1>5. IsFiniteSet(0 .. n - 1) /\ Cardinality(0 .. n - 1) = n
  <2> HIDE DEF n
  <2>1. n - 1 \in Int /\ (0 > n - 1 <=> n = 0)
    BY <1>1
  <2> QED
    BY <1>1, <2>1, FS_Interval
<1>6. f \in Surjection(S, 0 .. n - 1)
  <2> HIDE DEF f
  <2> QED
    BY <1>4, <1>5, FS_Injection
<1>7. \A t \in 0 .. n - 1 : \E r \in S : f[r] = t
  BY <1>6, Zenon DEF Surjection
<1>8. k \in 0 .. n - 1
  BY <1>1
<1> QED
  BY <1>7, <1>8

\* A page is everything up to the row it ends with.
LEMMA PageEnds ==
  ASSUME NEW S \in SUBSET Row, IsFiniteSet(S), Limit \in Nat \ {0}, Cardinality(S) > Limit,
         NEW c, c = CHOOSE r \in {q \in S : Rank(q, S) < Limit} : Rank(r, S) = Limit - 1
  PROVE  /\ c \in S
         /\ \A r \in S : Rank(r, S) < Limit <=> ~Less(c, r)
<1>1. Cardinality(S) \in Nat /\ Limit - 1 \in Nat /\ Limit - 1 < Cardinality(S)
  BY FS_CardinalityType
<1>2. \E r \in S : Rank(r, S) = Limit - 1
  BY <1>1, RankOnto
<1>3. c \in S /\ Rank(c, S) = Limit - 1
  BY <1>2
<1>4. ASSUME NEW r \in S PROVE Rank(r, S) < Limit <=> ~Less(c, r)
  <2>1. Rank(r, S) \in Nat
    BY RankBound
  <2>2. CASE Less(c, r)
    BY <1>3, <2>1, <2>2, RankGrows
  <2>3. CASE Less(r, c)
    BY <1>3, <2>1, <2>3, RankGrows, LessOrder
  <2>4. CASE r = c
    BY <1>3, <2>4, LessOrder
  <2> QED
    BY <1>3, <2>2, <2>3, <2>4, LessOrder
<1> QED
  BY <1>3, <1>4

\* The last page is everything that is left.
LEMMA PageIsAll ==
  ASSUME NEW S \in SUBSET Row, IsFiniteSet(S), Limit \in Nat, ~(Cardinality(S) > Limit), NEW r \in S
  PROVE  Rank(r, S) < Limit
  BY RankBound, FS_CardinalityType

-----------------------------------------------------------------------------
(* The walk.                                                               *)

\* The answer to one request for a page.
LEMMA PageStep == WalkInv /\ Page => WalkInv'
<1> SUFFICES ASSUME WalkInv, Page PROVE WalkInv'
  OBVIOUS
<1> DEFINE rest == {r \in held \ blank : After(r, walk.cursor)}
           page == {r \in rest : Rank(r, rest) < Limit}
           more == Cardinality(rest) > Limit
           end == CHOOSE r \in page : Rank(r, rest) = Limit - 1
           fresh == [r \in AllRows |-> walk.got[r] + (IF r \in page THEN 1 ELSE 0)]
<1>c. AllRows \in SUBSET Row /\ IsFiniteSet(AllRows) /\ Limit \in Nat \ {0} /\ NoCursor \notin AllRows
  BY WalkConfig DEF Row, NoCursor
<1>u. UNCHANGED <<kind, held, blank, look, owed>> /\ since' = (IF walk.pc = "new" THEN held \ blank ELSE since)
  BY DEF Page
<1>p. /\ walk.pc \in {"new", "walking"}
      /\ walk' = IF walk.cursor = NoCursor /\ rest = {}
                   THEN [walk EXCEPT !.pc = IF kind = "edges" THEN "probe" ELSE "unknown"]
                   ELSE [pc |-> IF more THEN "walking" ELSE "complete",
                         cursor |-> IF more THEN end ELSE NoCursor,
                         got |-> fresh]
  BY DEF Page, HasMore
<1>t. /\ walk \in [pc : {"new", "walking", "probe", "complete", "unknown"},
                    cursor : AllRows \cup {NoCursor}, got : [AllRows -> 0..1]]
      /\ held \subseteq AllRows /\ blank \subseteq held /\ since \subseteq held /\ Got \subseteq held
      /\ walk.pc = "new" => walk.cursor = NoCursor /\ Got = {}
  BY DEF WalkInv, WalkerInv
<1>w. walk.pc = "walking" => /\ walk.cursor \in AllRows /\ walk.cursor # NoCursor /\ since \cap blank = {}
                             /\ \A r \in since : ~Less(walk.cursor, r) => r \in Got
                             /\ \A r \in Got : ~Less(walk.cursor, r)
  BY DEF WalkInv, WalkerInv
<1>r. rest \in SUBSET AllRows /\ rest \in SUBSET held /\ rest \in SUBSET Row /\ IsFiniteSet(rest)
  BY <1>c, <1>t, FS_Subset
<1>n. walk.pc = "new" => rest = held \ blank
  BY <1>t DEF After
<1>a. walk.pc = "walking" => \A r \in held \ blank : r \in rest <=> Less(walk.cursor, r)
  BY <1>w DEF After
<1>o. page \in SUBSET rest
  OBVIOUS
<1>e. more => end \in rest /\ \A r \in rest : r \in page <=> ~Less(end, r)
  BY <1>c, <1>r, PageEnds
<1>l. ~more => page = rest
  BY <1>c, <1>r, PageIsAll
<1>s. since' \subseteq held /\ (walk.pc = "new" => since' = rest) /\ (walk.pc = "walking" => since' = since)
  BY <1>u, <1>t, <1>n
<1> HIDE DEF rest, page, more, end
<1>g. \A r \in page : r \notin Got
  BY <1>p, <1>t, <1>w, <1>a, <1>o, <1>r DEF rest
<1>f. fresh \in [AllRows -> 0..1] /\ {r \in AllRows : fresh[r] > 0} = Got \cup page
  <2>1. \A r \in AllRows : walk.got[r] \in 0..1 /\ (r \in Got <=> walk.got[r] > 0)
    BY <1>t DEF Got
  <2>2. page \subseteq AllRows /\ Got \subseteq AllRows
    BY <1>o, <1>r DEF Got
  <2> QED
    BY <2>1, <2>2, <1>g
<1> HIDE DEF fresh
<1>1. CASE walk.cursor = NoCursor /\ rest = {}
  <2>1. walk.pc = "new" /\ since' = {}
    BY <1>1, <1>p, <1>w, <1>s
  <2>2. walk' = [walk EXCEPT !.pc = IF kind = "edges" THEN "probe" ELSE "unknown"]
    BY <1>1, <1>p
  <2>3. walk'.pc \in {"probe", "unknown"} /\ walk'.got = walk.got /\ walk'.cursor = walk.cursor
    BY <2>2, <1>t
  <2>4. Got' = Got
    BY <2>3 DEF Got
  <2>5. walk' \in [pc : {"new", "walking", "probe", "complete", "unknown"},
                   cursor : AllRows \cup {NoCursor}, got : [AllRows -> 0..1]]
    BY <2>2, <1>t
  <2>6. WalkerInv'
    BY <2>1, <2>3, <2>5 DEF WalkerInv
  <2> QED
    BY <1>u, <2>1, <2>4, <2>6 DEF WalkInv, LookInv
<1>2. CASE ~(walk.cursor = NoCursor /\ rest = {}) /\ more
  <2>1. walk' = [pc |-> "walking", cursor |-> end, got |-> fresh]
    BY <1>2, <1>p
  <2>2. walk'.pc = "walking" /\ walk'.cursor = end /\ walk'.got = fresh
    BY <2>1
  <2>3. Got' = Got \cup page
    BY <2>2, <1>f DEF Got
  <2>4. end \in rest /\ end \in AllRows /\ end # NoCursor /\ \A r \in rest : r \in page <=> ~Less(end, r)
    BY <1>2, <1>e, <1>r, <1>c
  <2>5. since' \cap blank' = {}
    BY <1>p, <1>s, <1>u, <1>w, <1>n
  <2>6. ASSUME NEW r \in since', ~Less(end, r) PROVE r \in Got \cup page
    <3>1. CASE walk.pc = "new"
      BY <3>1, <2>6, <2>4, <1>s
    <3>2. CASE walk.pc = "walking"
      <4>1. r \in held \ blank
        BY <3>2, <2>6, <1>s, <1>w
      <4> QED
        BY <3>2, <4>1, <2>6, <2>4, <1>s, <1>w, <1>a
    <3> QED
      BY <3>1, <3>2, <1>p
  <2>7. ASSUME NEW r \in Got \cup page PROVE ~Less(end, r)
    <3>1. CASE r \in page
      BY <3>1, <2>4, <1>o
    <3>2. CASE r \in Got
      <4>1. walk.pc = "walking" /\ walk.cursor \in Row /\ ~Less(walk.cursor, r)
        BY <3>2, <1>p, <1>t, <1>w, <1>c
      <4>2. Less(walk.cursor, end) /\ end \in Row /\ r \in Row
        BY <4>1, <2>4, <1>a, <1>r, <1>c, <3>2, <1>t DEF rest
      <4> QED
        BY <4>1, <4>2, LessOrder
    <3> QED
      BY <3>1, <3>2
  <2>8. WalkerInv'
    <3>1. walk' \in [pc : {"new", "walking", "probe", "complete", "unknown"},
                     cursor : AllRows \cup {NoCursor}, got : [AllRows -> 0..1]]
      BY <2>1, <2>4, <1>f
    <3> QED
      BY <3>1, <2>2, <2>3, <2>4, <2>5, <2>6, <2>7 DEF WalkerInv
  <2>9. Got' \subseteq held'
    BY <2>3, <1>t, <1>o, <1>r, <1>u
  <2> QED
    BY <1>u, <1>s, <2>8, <2>9 DEF WalkInv, LookInv
<1>3. CASE ~(walk.cursor = NoCursor /\ rest = {}) /\ ~more
  <2>1. walk' = [pc |-> "complete", cursor |-> NoCursor, got |-> fresh]
    BY <1>3, <1>p
  <2>2. walk'.pc = "complete" /\ walk'.got = fresh
    BY <2>1
  <2>3. Got' = Got \cup page
    BY <2>2, <1>f DEF Got
  <2>4. page = rest
    BY <1>3, <1>l
  <2>5. ASSUME NEW r \in since' PROVE r \in Got \cup page
    <3>1. CASE walk.pc = "new"
      BY <3>1, <2>4, <1>s
    <3>2. CASE walk.pc = "walking"
      <4>1. r \in held \ blank
        BY <3>2, <1>s, <1>w, <1>t
      <4> QED
        BY <3>2, <4>1, <2>4, <1>s, <1>w, <1>a
    <3> QED
      BY <3>1, <3>2, <1>p
  <2>6. WalkerInv'
    <3>1. walk' \in [pc : {"new", "walking", "probe", "complete", "unknown"},
                     cursor : AllRows \cup {NoCursor}, got : [AllRows -> 0..1]]
      BY <2>1, <1>f
    <3> QED
      BY <3>1, <2>2, <2>3, <2>5 DEF WalkerInv
  <2>7. Got' \subseteq held'
    BY <2>3, <1>t, <1>o, <1>r, <1>u
  <2> QED
    BY <1>u, <1>s, <2>6, <2>7 DEF WalkInv, LookInv
<1> QED
  BY <1>1, <1>2, <1>3

\* The other steps of the walk, and those of the rows.
LEMMA RowSteps == WalkInv /\ (Probe \/ \E r \in AllRows : Arrives(r) \/ Erased(r)) => WalkInv'
<1> SUFFICES ASSUME WalkInv, Probe \/ \E r \in AllRows : Arrives(r) \/ Erased(r) PROVE WalkInv'
  OBVIOUS
<1>1. CASE Probe
  <2>1. /\ walk'.pc \in {"unknown", "complete"} /\ walk'.got = walk.got /\ walk.pc = "probe"
        /\ walk' \in [pc : {"new", "walking", "probe", "complete", "unknown"},
                       cursor : AllRows \cup {NoCursor}, got : [AllRows -> 0..1]]
    BY <1>1 DEF Probe, WalkInv, WalkerInv
  <2>2. Got' = Got
    BY <2>1 DEF Got
  <2>3. UNCHANGED <<kind, held, blank, since, look, owed>>
    BY <1>1 DEF Probe
  <2>4. WalkerInv'
    BY <2>1, <2>3 DEF WalkInv, WalkerInv
  <2> QED
    BY <2>2, <2>3, <2>4 DEF WalkInv, LookInv
<1>2. ASSUME NEW r \in AllRows, Arrives(r) PROVE WalkInv'
  <2>1. Got' = Got
    BY <1>2 DEF Arrives, Got
  <2>2. WalkerInv'
    BY <1>2, <2>1 DEF Arrives, WalkInv, WalkerInv
  <2> QED
    BY <1>2, <2>1, <2>2 DEF Arrives, WalkInv, LookInv
<1>3. ASSUME NEW r \in AllRows, Erased(r) PROVE WalkInv'
  <2>1. Got' = Got
    BY <1>3 DEF Erased, Got
  <2>2. WalkerInv'
    BY <1>3, <2>1 DEF Erased, WalkInv, WalkerInv
  <2> QED
    BY <1>3, <2>1, <2>2 DEF Erased, WalkInv, LookInv
<1> QED
  BY <1>1, <1>2, <1>3

\* The steps of a request by hash.
LEMMA LookSteps ==
  WalkInv /\ ((\E s \in Lookups : Ask(s)) \/ (\E r \in AllRows : LookupHash(r)) \/ Answer) => WalkInv'
<1> SUFFICES ASSUME WalkInv, (\E s \in Lookups : Ask(s)) \/ (\E r \in AllRows : LookupHash(r)) \/ Answer
             PROVE  WalkInv'
  BY Zenon
<1>1. UNCHANGED <<kind, held, blank, walk, since>>
  BY Zenon DEF Ask, LookupHash, Answer
<1>2. Got' = Got /\ WalkerInv'
  BY <1>1 DEF WalkInv, WalkerInv, Got
<1>3. LookInv'
  <2>1. ASSUME NEW s \in Lookups, Ask(s) PROVE LookInv'
    BY <2>1, WalkConfig, Zenon DEF Ask, WalkInv, LookInv
  <2>2. ASSUME NEW r \in AllRows, LookupHash(r) PROVE LookInv'
    <3>1. PICK o, e \in {{}, {r}} : /\ look' = [look EXCEPT !.left = @ \ {r}, !.objects = @ \cup o, !.erased = @ \cup e]
                                    /\ o \cap e = {} /\ (r \in held => o \cup e = {r})
      BY <2>2, ZenonT(30) DEF LookupHash, Sorted
    <3>2. /\ look.pc = "reading" /\ r \in look.left /\ UNCHANGED <<held, owed>>
          /\ look \in [pc : {"new", "reading", "ok", "gone"}, left : SUBSET AllRows,
                       objects : SUBSET AllRows, erased : SUBSET AllRows]
          /\ owed \subseteq held /\ owed \subseteq look.left \cup look.objects \cup look.erased
          /\ look.objects \cap look.erased = {}
          /\ look.left \cap (look.objects \cup look.erased) = {}
      BY <2>2, Zenon DEF LookupHash, WalkInv, LookInv
    <3>3. /\ look'.pc = look.pc /\ look'.left = look.left \ {r}
          /\ look'.objects = look.objects \cup o /\ look'.erased = look.erased \cup e
      BY <3>1, <3>2
    <3>4. look' \in [pc : {"new", "reading", "ok", "gone"}, left : SUBSET AllRows,
                     objects : SUBSET AllRows, erased : SUBSET AllRows]
      <4> DEFINE lo == look.left \ {r}
                 ob == look.objects \cup o
                 er == look.erased \cup e
      <4>1. lo \in SUBSET AllRows /\ ob \in SUBSET AllRows /\ er \in SUBSET AllRows
        BY <3>1, <3>2
      <4>2. look' = [look EXCEPT !.left = lo, !.objects = ob, !.erased = er]
        BY <3>1, <3>2
      <4> HIDE DEF lo, ob, er
      <4> QED
        BY <4>1, <4>2, <3>2, ZenonT(30)
    <3>5. owed' \subseteq look'.left \cup look'.objects \cup look'.erased
      BY <3>1, <3>2, <3>3
    <3>6. look'.objects \cap look'.erased = {}
      BY <3>1, <3>2, <3>3
    <3>7. look'.left \cap (look'.objects \cup look'.erased) = {}
      BY <3>1, <3>2, <3>3
    <3> QED
      BY <3>2, <3>3, <3>4, <3>5, <3>6, <3>7, ZenonT(30) DEF LookInv
  <2>3. CASE Answer
    BY <2>3 DEF Answer, WalkInv, LookInv
  <2> QED
    BY <2>1, <2>2, <2>3, Zenon
<1> QED
  BY <1>1, <1>2, <1>3 DEF WalkInv

\* The walks and the lookups are exact (WalkIsExact), for any rows, page size and lookups.
THEOREM WalksAreExact == WalkSpec => []WalkIsExact
<1>1. WalkInit => WalkInv
  <2> SUFFICES ASSUME WalkInit PROVE WalkInv
    OBVIOUS
  <2>1. Got = {}
    BY DEF WalkInit, Got
  <2> QED
    <3>1. WalkerInv
      BY <2>1 DEF WalkInit, WalkerInv
    <3>2. LookInv
      BY DEF WalkInit, LookInv
    <3> QED
      BY <2>1, <3>1, <3>2 DEF WalkInit, WalkInv
<1>2. WalkInv /\ [WalkNext]_walkVars => WalkInv'
  <2> SUFFICES ASSUME WalkInv, [WalkNext]_walkVars PROVE WalkInv'
    OBVIOUS
  <2>1. CASE UNCHANGED walkVars
    BY <2>1 DEF walkVars, WalkInv, WalkerInv, LookInv, Got
  <2> QED
    BY <2>1, PageStep, RowSteps, LookSteps DEF WalkNext
<1>3. WalkInv => WalkIsExact
  <2> SUFFICES ASSUME WalkInv PROVE WalkIsExact
    OBVIOUS
  <2>1. WalkTypeOK
    BY DEF WalkInv, WalkerInv, LookInv, WalkTypeOK
  <2>2. CompleteWalkMissesNothing /\ WalkNeverRepeats
    BY DEF WalkInv, WalkerInv, CompleteWalkMissesNothing, WalkNeverRepeats
  <2>3. HeldIsAccounted
    BY DEF WalkInv, LookInv, HeldIsAccounted
  <2> QED
    BY <2>1, <2>2, <2>3 DEF WalkIsExact
<1> QED
  BY <1>1, <1>2, <1>3, PTL DEF WalkSpec
=============================================================================
