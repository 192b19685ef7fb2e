------------------------ MODULE OutboundBudgetProofs ------------------------
(***************************************************************************)
(* The byte counters of OutboundQueue, for any peers, object sizes and     *)
(* caps: each peer's counter is the sum over its queue, the total is the   *)
(* sum over the peers, and the caps are overshot by no more than one       *)
(* batch.                                                                  *)
(*                                                                         *)
(* The sums are recursive functions.  A set of naturals that holds 0 and   *)
(* the successor of each of its members is Nat (SetInduction, from the     *)
(* well-foundedness of <), and what a sum does is shown by such sets.      *)
(***************************************************************************)
EXTENDS OutboundQueueProofs, WellFoundedInduction

-----------------------------------------------------------------------------
(* Sums *)

LEMMA LeastNat ==
  ASSUME NEW T \in SUBSET Nat, T # {}
  PROVE  \E x \in T : \A y \in T : x <= y
<1> DEFINE R == {ss \in Nat \X Nat : ss[1] < ss[2]}
<1>1. IsWellFoundedOn(R, Nat)
  BY NatLessThanWellFounded DEF OpToRel
<1>2. \A x, y \in Nat : y < x => <<y, x>> \in R
  OBVIOUS
<1> HIDE DEF R
<1>3. PICK x \in T : \A y \in T : ~ (<<y, x>> \in R)
  BY <1>1, WFMin
<1>4. \A y \in T : ~(y < x)
  BY <1>2, <1>3
<1> QED
  BY <1>4

LEMMA SetInduction ==
  ASSUME NEW T \in SUBSET Nat, 0 \in T, \A n \in T : n + 1 \in T
  PROVE  T = Nat
<1> SUFFICES ASSUME Nat \ T # {} PROVE FALSE
  OBVIOUS
<1>1. PICK x \in Nat \ T : \A y \in Nat \ T : x <= y
  BY LeastNat
<1>2. x # 0 /\ x - 1 \in Nat /\ x - 1 \in T
  BY <1>1
<1> QED
  BY <1>1, <1>2

SumsTo(f, a, n) == f = [i \in 0..n |-> IF i = 0 THEN 0 ELSE f[i - 1] + a[i]]

\* The recursive function exists.
LEMMA SumExists == 
  ASSUME NEW a, NEW n \in Nat
  PROVE  \E f : SumsTo(f, a, n)
<1> DEFINE T == {k \in Nat : \E f : SumsTo(f, a, k)}
<1>1. 0 \in T
  <2>1. SumsTo([i \in 0..0 |-> 0], a, 0)
    BY DEF SumsTo
  <2> QED
    BY <2>1
<1>2. ASSUME NEW k \in T PROVE k + 1 \in T
  <2>1. PICK f : SumsTo(f, a, k)
    BY <1>2
  <2> DEFINE g == [i \in 0..(k + 1) |-> IF i = k + 1 THEN f[k] + a[k + 1] ELSE f[i]]
  <2>2. \A i \in 0..k : f[i] = IF i = 0 THEN 0 ELSE f[i - 1] + a[i]
    BY <2>1 DEF SumsTo
  <2>3. \A i \in 0..(k + 1) : g[i] = IF i = 0 THEN 0 ELSE g[i - 1] + a[i]
    BY <1>2, <2>2
  <2>4. g = [i \in 0..(k + 1) |-> g[i]]
    OBVIOUS
  <2> HIDE DEF g
  <2>5. SumsTo(g, a, k + 1)
    BY <2>3, <2>4 DEF SumsTo
  <2> QED
    BY <2>5
<1> HIDE DEF T
<1>3. T = Nat
  <2>1. T \subseteq Nat
    BY DEF T
  <2> QED
    BY <1>1, <1>2, <2>1, SetInduction
<1> QED
  BY <1>3 DEF T

LEMMA RunningSumStep ==
  ASSUME NEW n \in Nat, NEW a \in [1..n -> Nat]
  PROVE  /\ RunningSum(a, n)[0] = 0
         /\ \A i \in 1..n : RunningSum(a, n)[i] = RunningSum(a, n)[i - 1] + a[i]
<1>1. SumsTo(RunningSum(a, n), a, n)
  BY SumExists DEF RunningSum, SumsTo
<1>2. \A i \in 0..n :
        RunningSum(a, n)[i] = IF i = 0 THEN 0 ELSE RunningSum(a, n)[i - 1] + a[i]
  BY <1>1 DEF SumsTo
<1>3. \A i \in 1..n : i \in 0..n /\ i # 0
  OBVIOUS
<1>4. 0 \in 0..n
  OBVIOUS
<1> QED
  BY Zenon, <1>2, <1>3, <1>4

LEMMA RunningSumType ==
  ASSUME NEW n \in Nat, NEW a \in [1..n -> Nat]
  PROVE  \A i \in 0..n : RunningSum(a, n)[i] \in Nat
<1> DEFINE R == RunningSum(a, n)
           T == {k \in Nat : k <= n => R[k] \in Nat}
<1>1. R[0] = 0 /\ \A i \in 1..n : R[i] = R[i - 1] + a[i] /\ a[i] \in Nat
  BY RunningSumStep
<1> HIDE DEF R
<1>2. 0 \in T
  BY <1>1
<1>3. ASSUME NEW k \in T PROVE k + 1 \in T
  <2>1. SUFFICES ASSUME k + 1 <= n PROVE R[k + 1] \in Nat
    BY <1>3
  <2>2. k + 1 \in 1..n /\ (k + 1) - 1 = k /\ k <= n
    BY <1>3, <2>1
  <2> QED
    BY <1>1, <1>3, <2>2
<1> HIDE DEF T
<1>4. T = Nat
  <2>1. T \subseteq Nat
    BY DEF T
  <2> QED
    BY <1>2, <1>3, <2>1, SetInduction
<1> QED
  BY <1>1, <1>4 DEF T, R

\* b repeats l summands of a from behind place k on.
Repeats(a, n, b, m, k, l) ==
  /\ n \in Nat /\ a \in [1..n -> Nat] /\ m \in Nat /\ b \in [1..m -> Nat]
  /\ k \in Nat /\ l \in Nat /\ k + l <= n /\ l <= m
  /\ \A i \in 1..l : a[k + i] = b[i]

\* Then so do the sums, but for what a sums up to k.
LEMMA SameSums ==
  ASSUME NEW a, NEW n, NEW b, NEW m, NEW k, NEW l, Repeats(a, n, b, m, k, l)
  PROVE  RunningSum(a, n)[k + l] = RunningSum(a, n)[k] + RunningSum(b, m)[l]
<1> DEFINE A == RunningSum(a, n)
           B == RunningSum(b, m)
           T == {j \in Nat : j <= l => A[k + j] = A[k] + B[j]}
<1>0. /\ n \in Nat /\ a \in [1..n -> Nat] /\ m \in Nat /\ b \in [1..m -> Nat]
      /\ k \in Nat /\ l \in Nat /\ k + l <= n /\ l <= m
      /\ \A i \in 1..l : a[k + i] = b[i]
  BY Zenon DEF Repeats
<1>1. /\ B[0] = 0 /\ \A i \in 1..n : A[i] = A[i - 1] + a[i] /\ a[i] \in Nat
      /\ \A i \in 1..m : B[i] = B[i - 1] + b[i] /\ b[i] \in Nat
  BY <1>0, RunningSumStep
<1>2. (\A i \in 0..n : A[i] \in Nat) /\ (\A i \in 0..m : B[i] \in Nat)
  BY <1>0, RunningSumType
<1> HIDE DEF A, B
<1>3. 0 \in T
  <2>1. k \in 0..n /\ k + 0 = k
    BY <1>0
  <2>2. A[k] \in Nat
    BY <1>2, <2>1
  <2>3. A[k + 0] = A[k] + B[0]
    BY <1>1, <2>1, <2>2
  <2> QED
    BY <2>3
<1>4. ASSUME NEW j \in T PROVE j + 1 \in T
  <2>0. j \in Nat
    BY <1>4
  <2>1. SUFFICES ASSUME j + 1 <= l PROVE A[k + (j + 1)] = A[k] + B[j + 1]
    BY <2>0
  <2>2. /\ k + (j + 1) \in 1..n /\ (k + (j + 1)) - 1 = k + j /\ j <= l
        /\ j + 1 \in 1..l /\ j + 1 \in 1..m /\ (j + 1) - 1 = j
        /\ k \in 0..n /\ j \in 0..m
    BY <1>0, <2>0, <2>1
  <2>3. A[k + j] = A[k] + B[j]
    BY <1>4, <2>2
  <2>4. A[k + (j + 1)] = A[k + j] + a[k + (j + 1)] /\ B[j + 1] = B[j] + b[j + 1]
    BY Zenon, <1>1, <2>2
  <2>5. a[k + (j + 1)] = b[j + 1] /\ b[j + 1] \in Nat
    BY Zenon, <1>0, <1>1, <2>2
  <2>6. A[k] \in Nat /\ B[j] \in Nat
    BY <1>2, <2>2
  <2> QED
    BY <2>3, <2>4, <2>5, <2>6
<1> HIDE DEF T
<1>5. T = Nat
  <2>1. T \subseteq Nat
    BY DEF T
  <2> QED
    BY <1>3, <1>4, <2>1, SetInduction
<1> QED
  BY <1>0, <1>5 DEF T, A, B

\* One summand changes.
LEMMA SumChange ==
  ASSUME NEW n \in Nat, NEW a \in [1..n -> Nat], NEW b \in [1..n -> Nat], NEW k \in 1..n,
         \A i \in 1..n : i # k => b[i] = a[i]
  PROVE  Sum(b, n) + a[k] = Sum(a, n) + b[k]
<1> DEFINE A == RunningSum(a, n)
           B == RunningSum(b, n)
           T == {j \in Nat : j <= n =>
                   IF j < k THEN B[j] = A[j] ELSE B[j] + a[k] = A[j] + b[k]}
<1>1. /\ A[0] = 0 /\ \A i \in 1..n : A[i] = A[i - 1] + a[i] /\ a[i] \in Nat
      /\ B[0] = 0 /\ \A i \in 1..n : B[i] = B[i - 1] + b[i] /\ b[i] \in Nat
  BY RunningSumStep
<1>2. (\A i \in 0..n : A[i] \in Nat) /\ (\A i \in 0..n : B[i] \in Nat)
  BY RunningSumType
<1> HIDE DEF A, B
<1>3. 0 \in T
  BY <1>1
<1>4. ASSUME NEW j \in T PROVE j + 1 \in T
  <2>0. j \in Nat
    BY <1>4
  <2>1. SUFFICES ASSUME j + 1 <= n
                 PROVE  IF j + 1 < k THEN B[j + 1] = A[j + 1]
                                     ELSE B[j + 1] + a[k] = A[j + 1] + b[k]
    BY <2>0
  <2>2. j + 1 \in 1..n /\ (j + 1) - 1 = j /\ j <= n /\ j \in 0..n
    BY <2>0, <2>1
  <2>3. IF j < k THEN B[j] = A[j] ELSE B[j] + a[k] = A[j] + b[k]
    BY <1>4, <2>2
  <2>4. A[j + 1] = A[j] + a[j + 1] /\ B[j + 1] = B[j] + b[j + 1]
    BY Zenon, <1>1, <2>2
  <2>5. /\ a[j + 1] \in Nat /\ b[j + 1] \in Nat /\ A[j] \in Nat /\ B[j] \in Nat
        /\ a[k] \in Nat /\ b[k] \in Nat /\ (j + 1 # k => b[j + 1] = a[j + 1])
    BY Zenon, <1>1, <1>2, <2>2
  <2>7. CASE j + 1 < k
    <3>1. B[j] = A[j] /\ b[j + 1] = a[j + 1]
      BY <2>0, <2>3, <2>5, <2>7
    <3>2. B[j + 1] = A[j + 1]
      BY Zenon, <2>4, <3>1
    <3> QED
      BY Zenon, <2>7, <3>2
  <2>8. CASE j + 1 = k
    <3>1. B[j] = A[j] /\ ~(j + 1 < k)
      BY <2>0, <2>3, <2>8
    <3>2. (B[j] + b[j + 1]) + a[j + 1] = (A[j] + a[j + 1]) + b[j + 1]
      BY <2>5, <3>1
    <3>3. B[j + 1] + a[k] = A[j + 1] + b[k]
      BY Zenon, <2>4, <2>8, <3>2
    <3> QED
      BY Zenon, <3>1, <3>3
  <2>9. CASE k <= j
    <3>1. B[j] + a[k] = A[j] + b[k] /\ b[j + 1] = a[j + 1] /\ ~(j + 1 < k)
      BY <2>0, <2>3, <2>5, <2>9
    <3>2. PICK u, v, w, x, y \in Nat :
            u = B[j] /\ v = A[j] /\ w = a[k] /\ x = b[k] /\ y = a[j + 1]
      BY Zenon, <2>5
    <3>3. (B[j] + a[j + 1]) + a[k] = (A[j] + a[j + 1]) + b[k]
      <4>1. u + w = v + x
        BY Zenon, <3>1, <3>2
      <4>2. (u + y) + w = (v + y) + x
        BY <4>1
      <4> QED
        BY Zenon, <3>2, <4>2
    <3>4. B[j + 1] + a[k] = A[j + 1] + b[k]
      BY Zenon, <2>4, <3>1, <3>3
    <3> QED
      BY Zenon, <3>1, <3>4
  <2>10. j + 1 < k \/ j + 1 = k \/ k <= j
    BY <2>0
  <2> QED
    BY Zenon, <2>7, <2>8, <2>9, <2>10
<1> HIDE DEF T
<1>5. T = Nat
  <2>1. T \subseteq Nat
    BY DEF T
  <2> QED
    BY <1>3, <1>4, <2>1, SetInduction
<1>6. B[n] + a[k] = A[n] + b[k]
  <2>1. n \in T /\ n <= n /\ ~(n < k)
    BY <1>5
  <2>2. \A m \in T : m <= n => IF m < k THEN B[m] = A[m] ELSE B[m] + a[k] = A[m] + b[k]
    BY Zenon DEF T
  <2> QED
    BY Zenon, <2>1, <2>2
<1> QED
  BY <1>6 DEF Sum, A, B

\* No summand exceeds the sum.
LEMMA SumBounds ==
  ASSUME NEW n \in Nat, NEW a \in [1..n -> Nat], NEW k \in 1..n
  PROVE  a[k] <= Sum(a, n) /\ Sum(a, n) \in Nat
<1> DEFINE b == [a EXCEPT ![k] = 0]
<1>1. b \in [1..n -> Nat] /\ b[k] = 0 /\ \A i \in 1..n : i # k => b[i] = a[i]
  OBVIOUS
<1> HIDE DEF b
<1>2. Sum(b, n) + a[k] = Sum(a, n) + b[k]
  BY <1>1, SumChange
<1>3. Sum(b, n) \in Nat /\ Sum(a, n) \in Nat
  BY <1>1, RunningSumType DEF Sum
<1> QED
  BY <1>1, <1>2, <1>3

LEMMA SizesType ==
  ASSUME NEW s \in Seq(QueuedObject)
  PROVE  /\ Len(s) \in Nat /\ SizesOf(s) \in [1..Len(s) -> Nat]
         /\ \A i \in 1..Len(s) : SizesOf(s)[i] = s[i].size
<1>1. \A i \in 1..Len(s) : s[i] \in QueuedObject
  OBVIOUS
<1>2. \A x \in QueuedObject : x.size \in Nat
  BY Zenon, OutboundConfig DEF QueuedObject
<1> QED
  BY <1>1, <1>2 DEF SizesOf

LEMMA EmptyBytes == SeqBytes(<<>>) = 0
<1>1. <<>> \in Seq(QueuedObject) /\ Len(<<>>) = 0
  OBVIOUS
<1>2. RunningSum(SizesOf(<<>>), Len(<<>>))[0] = 0
  BY <1>1, SizesType, RunningSumStep
<1> QED
  BY <1>1, <1>2 DEF SeqBytes, Sum

LEMMA SeqBytesType ==
  ASSUME NEW s \in Seq(QueuedObject)
  PROVE  SeqBytes(s) \in Nat
<1>1. Len(s) \in Nat /\ SizesOf(s) \in [1..Len(s) -> Nat] /\ Len(s) \in 0..Len(s)
  BY SizesType
<1> QED
  BY Zenon, <1>1, RunningSumType DEF SeqBytes, Sum

LEMMA AppendBytes ==
  ASSUME NEW s \in Seq(QueuedObject), NEW x \in QueuedObject
  PROVE  SeqBytes(Append(s, x)) = SeqBytes(s) + x.size
<1> DEFINE t == Append(s, x)
           n == Len(s)
           A == RunningSum(SizesOf(t), n + 1)
           B == RunningSum(SizesOf(s), n)
<1>1. /\ t \in Seq(QueuedObject) /\ n \in Nat /\ Len(t) = n + 1 /\ t[n + 1] = x
      /\ \A i \in 1..n : t[i] = s[i]
  OBVIOUS
<1> HIDE DEF t, n
<1>2. /\ SizesOf(s) \in [1..n -> Nat] /\ SizesOf(t) \in [1..(n + 1) -> Nat]
      /\ \A i \in 1..n : SizesOf(s)[i] = s[i].size
      /\ \A i \in 1..(n + 1) : SizesOf(t)[i] = t[i].size
  BY <1>1, SizesType DEF n
<1>3. n + 1 \in 1..(n + 1) /\ (n + 1) - 1 = n /\ n + 1 \in Nat
  BY <1>1
<1>4. A[0] = 0 /\ A[n + 1] = A[n] + x.size
  <2>1. A[n + 1] = A[(n + 1) - 1] + SizesOf(t)[n + 1] /\ A[0] = 0
    BY Zenon, <1>2, <1>3, RunningSumStep
  <2> QED
    BY Zenon, <1>1, <1>2, <1>3, <2>1
<1>5. A[n] = B[n]
  <2>1. 0 \in Nat /\ 0 + n <= n + 1 /\ n <= n /\ 0 + n = n
    BY <1>1
  <2>2. \A i \in 1..n : SizesOf(t)[0 + i] = SizesOf(s)[i]
    <3>1. \A i \in 1..n : 0 + i = i /\ i \in 1..(n + 1)
      BY <1>1
    <3> QED
      BY Zenon, <1>1, <1>2, <3>1
  <2>3. A[0 + n] = A[0] + B[n]
    <3>1. Repeats(SizesOf(t), n + 1, SizesOf(s), n, 0, n)
      BY Zenon, <1>1, <1>2, <1>3, <2>1, <2>2 DEF Repeats
    <3> QED
      BY <3>1, SameSums
  <2>4. B[n] \in Nat
    <3>1. n \in 0..n
      BY <1>1
    <3> QED
      BY Zenon, <1>1, <1>2, <3>1, RunningSumType
  <2> HIDE DEF A, B
  <2> QED
    BY <1>4, <2>1, <2>3, <2>4
<1> HIDE DEF A, B
<1>6. A[n + 1] = B[n] + x.size
  BY Zenon, <1>4, <1>5
<1>7. SeqBytes(t) = A[n + 1] /\ SeqBytes(s) = B[n]
  BY Zenon, <1>1 DEF SeqBytes, Sum, A, B, n
<1> QED
  BY Zenon, <1>6, <1>7 DEF t

LEMMA PopBytes ==
  ASSUME NEW s \in Seq(QueuedObject), s # <<>>
  PROVE  SeqBytes(s) = Head(s).size + SeqBytes(Tail(s))
<1> DEFINE t == Tail(s)
           n == Len(t)
           A == RunningSum(SizesOf(s), n + 1)
           B == RunningSum(SizesOf(t), n)
<1>1. /\ t \in Seq(QueuedObject) /\ n \in Nat /\ Len(s) = n + 1 /\ Head(s) = s[1]
      /\ \A i \in 1..n : t[i] = s[1 + i]
  OBVIOUS
<1> HIDE DEF t, n
<1>2. /\ SizesOf(t) \in [1..n -> Nat] /\ SizesOf(s) \in [1..(n + 1) -> Nat]
      /\ \A i \in 1..n : SizesOf(t)[i] = t[i].size
      /\ \A i \in 1..(n + 1) : SizesOf(s)[i] = s[i].size
  BY <1>1, SizesType DEF n
<1>3. A[1] = Head(s).size
  <2>1. 1 \in 1..(n + 1) /\ 1 - 1 = 0 /\ n + 1 \in Nat
    BY <1>1
  <2>2. A[1] = A[1 - 1] + SizesOf(s)[1] /\ A[0] = 0
    BY Zenon, <1>2, <2>1, RunningSumStep
  <2>3. SizesOf(s)[1] = Head(s).size /\ SizesOf(s)[1] \in Nat
    BY <1>1, <1>2, <2>1
  <2> HIDE DEF A
  <2> QED
    BY <2>1, <2>2, <2>3
<1>4. 1 + n = n + 1 /\ n + 1 \in Nat /\ 1 \in Nat /\ n <= n /\ 1 + n <= n + 1
  BY <1>1
<1>5. A[1 + n] = A[1] + B[n]
  <2>1. \A i \in 1..n : SizesOf(s)[1 + i] = SizesOf(t)[i]
    <3>1. \A i \in 1..n : 1 + i \in 1..(n + 1)
      BY <1>1
    <3> QED
      BY Zenon, <1>1, <1>2, <3>1
  <2> QED
    <3>1. Repeats(SizesOf(s), n + 1, SizesOf(t), n, 1, n)
      BY Zenon, <1>1, <1>2, <1>4, <2>1 DEF Repeats
    <3> QED
      BY <3>1, SameSums
<1>6. SeqBytes(s) = A[n + 1] /\ SeqBytes(t) = B[n]
  BY Zenon, <1>1 DEF SeqBytes, Sum, A, B, n
<1> HIDE DEF A, B
<1> QED
  BY Zenon, <1>3, <1>4, <1>5, <1>6 DEF t

LEMMA PrependBytes ==
  ASSUME NEW s \in Seq(QueuedObject), NEW x \in QueuedObject
  PROVE  SeqBytes(<<x>> \o s) = SeqBytes(s) + x.size
<1> DEFINE t == <<x>> \o s
<1>1. /\ t \in Seq(QueuedObject) /\ t # <<>>
  BY PutFront
<1>2. Head(t) = x /\ Tail(t) = s
  BY <1>1, HeadTailProperties, ConcatProperties
<1> HIDE DEF t
<1>3. SeqBytes(t) = x.size + SeqBytes(s)
  BY <1>1, <1>2, PopBytes
<1>4. x.size \in Nat /\ SeqBytes(s) \in Nat
  BY SeqBytesType, OutboundConfig DEF QueuedObject
<1> QED
  BY <1>3, <1>4 DEF t

-----------------------------------------------------------------------------
(* The byte budget *)

\* What the counters say of one peer's queue and batch.
Budget(n, q, b) ==
  /\ n = SeqBytes(q)
  /\ Len(b) <= MaxBatch
  /\ Len(q) + Len(b) <= ObjectsPerPeer + MaxBatch

BudgetInv == \A p \in Peers : Budget(bytes[p], items[p], batch[p])

LEMMA Caps ==
  /\ ObjectsPerPeer \in Nat /\ MaxBatch \in Nat
  /\ \A m, n \in Nat : m <= ObjectsPerPeer /\ n <= MaxBatch => m + n <= ObjectsPerPeer + MaxBatch
  /\ \A m, n \in Nat : m + n <= ObjectsPerPeer + MaxBatch =>
       /\ m + 0 <= ObjectsPerPeer + MaxBatch
       /\ m # 0 => m - 1 + n <= ObjectsPerPeer + MaxBatch
       /\ m # 0 => (m - 1) + (n + 1) <= ObjectsPerPeer + MaxBatch
       /\ n # 0 => (m + 1) + (n - 1) <= ObjectsPerPeer + MaxBatch
  /\ \A n \in Nat : n <= MaxBatch => n - 1 <= MaxBatch /\ 0 + n <= ObjectsPerPeer + MaxBatch
  /\ \A n \in Nat : n < MaxBatch => n + 1 <= MaxBatch
  /\ 0 <= MaxBatch
<1>1. ObjectsPerPeer \in Nat /\ MaxBatch \in Nat
  BY OutboundConfig
<1> QED
  BY <1>1

\* A step within the lines of one peer.
LEMMA OneBudget ==
  ASSUME BudgetInv, NEW p \in Peers, Budget(bytes'[p], items'[p], batch'[p]),
         \A q \in Peers : q # p => bytes'[q] = bytes[q] /\ items'[q] = items[q] /\ batch'[q] = batch[q]
  PROVE  BudgetInv'
<1>1. \A q \in Peers : Budget(bytes'[q], items'[q], batch'[q])
  BY Zenon DEF BudgetInv
<1> QED
  BY <1>1 DEF BudgetInv, Budget, SeqBytes, SizesOf, Sum, RunningSum

LEMMA SameBudget ==
  ASSUME BudgetInv, UNCHANGED <<bytes, items, batch>>
  PROVE  BudgetInv'
<1>1. \A q \in Peers : Budget(bytes'[q], items'[q], batch'[q])
  BY Zenon DEF BudgetInv
<1> QED
  BY <1>1 DEF BudgetInv, Budget, SeqBytes, SizesOf, Sum, RunningSum

\* The refund of a pop is what the object had added.
LEMMA PopBudget ==
  ASSUME TypeOK, BudgetInv, NEW p \in Peers, items[p] # <<>>, PopFront(p)
  PROVE  /\ bytes'[p] = SeqBytes(items'[p])
         /\ items'[p] = Tail(items[p]) /\ Len(items'[p]) = Len(items[p]) - 1
         /\ Len(items[p]) \in Nat \ {0}
         /\ \A q \in Peers : q # p => bytes'[q] = bytes[q] /\ items'[q] = items[q]
<1>1. /\ items[p] \in Seq(QueuedObject) /\ bytes[p] = SeqBytes(items[p])
      /\ items'[p] = Tail(items[p]) /\ bytes'[p] = SaturatingSub(bytes[p], Head(items[p]).size)
      /\ \A q \in Peers : q # p => bytes'[q] = bytes[q] /\ items'[q] = items[q]
  BY Zenon DEF TypeOK, BudgetInv, Budget, PopFront
<1>2. /\ Head(items[p]) \in QueuedObject /\ Tail(items[p]) \in Seq(QueuedObject)
      /\ Len(items[p]) \in Nat \ {0} /\ Len(Tail(items[p])) = Len(items[p]) - 1
  BY <1>1, SeqTypes
<1>3. Head(items[p]).size \in Nat /\ SeqBytes(Tail(items[p])) \in Nat
  BY Zenon, <1>2, SeqBytesType, OutboundConfig DEF QueuedObject
<1>4. SeqBytes(items[p]) = Head(items[p]).size + SeqBytes(Tail(items[p]))
  BY Zenon, <1>1, PopBytes
<1>5. \A a, b \in Nat : SaturatingSub(a + b, a) = b
  BY DEF SaturatingSub
<1>6. SaturatingSub(bytes[p], Head(items[p]).size) = SeqBytes(Tail(items[p]))
  <2>1. bytes[p] = Head(items[p]).size + SeqBytes(Tail(items[p]))
    BY Zenon, <1>1, <1>4
  <2>2. SaturatingSub(Head(items[p]).size + SeqBytes(Tail(items[p])), Head(items[p]).size)
          = SeqBytes(Tail(items[p]))
    BY Zenon, <1>3, <1>5
  <2> QED
    BY Zenon, <2>1, <2>2
<1> QED
  BY Zenon, <1>1, <1>2, <1>6

LEMMA LoseFront ==
  ASSUME TypeOK, BudgetInv, NEW p \in Peers, items[p] # <<>>, PopFront(p), UNCHANGED batch
  PROVE  BudgetInv'
<1>1. Budget(bytes[p], items[p], batch[p]) /\ Len(batch[p]) \in Nat
  BY DEF BudgetInv, TypeOK
<1>3. Budget(bytes'[p], items'[p], batch'[p])
  <2>1. Len(items'[p]) + Len(batch[p]) <= ObjectsPerPeer + MaxBatch
    BY Zenon, <1>1, PopBudget, Caps DEF Budget
  <2> QED
    BY Zenon, <1>1, <2>1, PopBudget DEF Budget
<1> QED
  BY Zenon, <1>3, PopBudget, OneBudget

LEMMA PushBudget ==
  ASSUME TypeOK, CallerInv, BudgetInv, NEW c \in Callers, Push(c)
  PROVE  BudgetInv'
<1>0. PICK p \in Peers, x \in QueuedObject : p = target[c] /\ x = object[c]
  BY Zenon DEF Push, CallerInv
<1>1. /\ items[p] \in Seq(QueuedObject) /\ bytes[p] = SeqBytes(items[p]) /\ UNCHANGED batch
      /\ items'[p] = Append(items[p], x) /\ bytes'[p] = bytes[p] + x.size
      /\ \A q \in Peers : q # p => bytes'[q] = bytes[q] /\ items'[q] = items[q]
  BY Zenon, <1>0 DEF TypeOK, BudgetInv, Budget, Push, workerVars
<1>2. bytes'[p] = SeqBytes(items'[p])
  BY Zenon, <1>1, AppendBytes
<1>3. Len(batch[p]) \in Nat /\ Len(batch[p]) <= MaxBatch
  BY DEF TypeOK, BudgetInv, Budget
<1>4. Len(items'[p]) = Len(items[p]) + 1 /\ Len(items[p]) \in Nat
  BY <1>1, PutFront
<1>5. items[p] = <<>> \/ Len(items[p]) + 1 <= ObjectsPerPeer
  <2>1. items[p] = <<>> \/ ~(Len(items[p]) + 1 > ObjectsPerPeer)
    BY Zenon, <1>0 DEF Push, OverPeerCap
  <2> QED
    BY <1>4, <2>1, OutboundConfig
<1>6. Len(items'[p]) <= ObjectsPerPeer
  BY <1>4, <1>5, OutboundConfig, EmptySeq
<1>7. Len(items'[p]) + Len(batch[p]) <= ObjectsPerPeer + MaxBatch
  <2>1. Len(items'[p]) \in Nat
    BY <1>4
  <2> QED
    BY Zenon, <1>3, <1>6, <2>1, Caps
<1>8. Budget(bytes'[p], items'[p], batch'[p])
  BY Zenon, <1>1, <1>2, <1>3, <1>7 DEF Budget
<1> QED
  BY Zenon, <1>1, <1>8, OneBudget

LEMMA TakeBudget ==
  ASSUME TypeOK, BudgetInv, NEW p \in Peers, TakeItem(p)
  PROVE  BudgetInv'
<1>1. /\ items[p] # <<>> /\ PopFront(p) /\ Len(batch[p]) < MaxBatch
      /\ batch' = [batch EXCEPT ![p] = Append(@, Head(items[p]))]
  BY Zenon DEF TakeItem, BatchOpen
<1>2. /\ batch[p] \in Seq(QueuedObject) /\ batch'[p] = Append(batch[p], Head(items[p]))
      /\ \A q \in Peers : q # p => batch'[q] = batch[q]
  BY Zenon, <1>1 DEF TypeOK
<1>3. Head(items[p]) \in QueuedObject
  BY <1>1, PopType
<1>4. Len(batch[p]) \in Nat /\ Len(batch'[p]) = Len(batch[p]) + 1
  BY <1>2, <1>3, PutFront
<1>5. Len(batch'[p]) <= MaxBatch
  BY <1>1, <1>4, OutboundConfig
<1>6. Len(items'[p]) = Len(items[p]) - 1 /\ Len(items[p]) \in Nat \ {0}
  BY Zenon, <1>1, PopBudget
<1>7. Len(items[p]) + Len(batch[p]) <= ObjectsPerPeer + MaxBatch
  BY DEF BudgetInv, Budget
<1>8. Len(items'[p]) + Len(batch'[p]) <= ObjectsPerPeer + MaxBatch
  BY Zenon, <1>4, <1>6, <1>7, Caps
<1>9. Budget(bytes'[p], items'[p], batch'[p])
  BY Zenon, <1>1, <1>5, <1>8, PopBudget DEF Budget
<1> QED
  BY Zenon, <1>1, <1>2, <1>9, PopBudget, OneBudget

LEMMA RequeueBudget ==
  ASSUME TypeOK, BudgetInv, NEW p \in Peers, RequeueItem(p)
  PROVE  BudgetInv'
<1>0. PICK x, rest : x = batch[p][Len(batch[p])] /\ rest = SubSeq(batch[p], 1, Len(batch[p]) - 1)
  OBVIOUS
<1>1. /\ batch[p] # <<>> /\ items' = [items EXCEPT ![p] = <<x>> \o items[p]]
      /\ batch' = [batch EXCEPT ![p] = rest] /\ bytes' = [bytes EXCEPT ![p] = @ + x.size]
  BY Zenon, <1>0 DEF RequeueItem, Restore, PutBack
<1>2. /\ items[p] \in Seq(QueuedObject) /\ batch[p] \in Seq(QueuedObject)
      /\ items'[p] = <<x>> \o items[p] /\ batch'[p] = rest /\ bytes'[p] = bytes[p] + x.size
      /\ \A q \in Peers : q # p => bytes'[q] = bytes[q] /\ items'[q] = items[q] /\ batch'[q] = batch[q]
  BY Zenon, <1>1 DEF TypeOK
<1>3. /\ x \in QueuedObject /\ Len(batch[p]) \in Nat \ {0} /\ Len(rest) = Len(batch[p]) - 1
  BY <1>0, <1>1, <1>2, SeqTypes
<1>4. /\ bytes[p] = SeqBytes(items[p]) /\ Len(batch[p]) <= MaxBatch
      /\ Len(items[p]) + Len(batch[p]) <= ObjectsPerPeer + MaxBatch
  BY Zenon DEF BudgetInv, Budget
<1>5. bytes'[p] = SeqBytes(items'[p])
  BY Zenon, <1>2, <1>3, <1>4, PrependBytes
<1>6. Len(items'[p]) = Len(items[p]) + 1 /\ Len(items[p]) \in Nat
  BY <1>2, <1>3, PutFront
<1>7. Len(rest) <= MaxBatch /\ Len(items'[p]) + Len(rest) <= ObjectsPerPeer + MaxBatch
  BY Zenon, <1>3, <1>4, <1>6, Caps
<1>8. Budget(bytes'[p], items'[p], batch'[p])
  BY Zenon, <1>2, <1>5, <1>7 DEF Budget
<1> QED
  BY Zenon, <1>2, <1>8, OneBudget

\* The batch of p is gone, or with the queue of p also its bytes.
LEMMA EmptyBudget ==
  ASSUME TypeOK, BudgetInv, NEW p \in Peers,
         \/ batch' = [batch EXCEPT ![p] = <<>>] /\ UNCHANGED <<items, bytes>>
         \/ /\ items' = [items EXCEPT ![p] = <<>>] /\ bytes' = [bytes EXCEPT ![p] = 0]
            /\ UNCHANGED batch
  PROVE  BudgetInv'
<1>1. /\ bytes[p] = SeqBytes(items[p]) /\ Len(batch[p]) <= MaxBatch
      /\ Len(items[p]) + Len(batch[p]) <= ObjectsPerPeer + MaxBatch
      /\ Len(items[p]) \in Nat /\ Len(batch[p]) \in Nat
  BY DEF BudgetInv, Budget, TypeOK
<1>2. \A q \in Peers : q # p => bytes'[q] = bytes[q] /\ items'[q] = items[q] /\ batch'[q] = batch[q]
  BY Zenon DEF TypeOK
<1>3. CASE batch' = [batch EXCEPT ![p] = <<>>] /\ UNCHANGED <<items, bytes>>
  <2>1. batch'[p] = <<>> /\ items'[p] = items[p] /\ bytes'[p] = bytes[p]
    BY Zenon, <1>3 DEF TypeOK
  <2>2. Len(batch'[p]) = 0
    BY <2>1, EmptySeq
  <2>3. Len(batch'[p]) <= MaxBatch /\ Len(items'[p]) + Len(batch'[p]) <= ObjectsPerPeer + MaxBatch
    BY Zenon, <1>1, <2>1, <2>2, Caps
  <2>4. Budget(bytes'[p], items'[p], batch'[p])
    BY Zenon, <1>1, <2>1, <2>3 DEF Budget
  <2> QED
    BY Zenon, <1>2, <2>4, OneBudget
<1>4. CASE /\ items' = [items EXCEPT ![p] = <<>>] /\ bytes' = [bytes EXCEPT ![p] = 0]
           /\ UNCHANGED batch
  <2>1. batch'[p] = batch[p] /\ items'[p] = <<>> /\ bytes'[p] = 0
    BY Zenon, <1>4 DEF TypeOK
  <2>2. Len(items'[p]) = 0
    BY <2>1, EmptySeq
  <2>3. Len(batch'[p]) <= MaxBatch /\ Len(items'[p]) + Len(batch'[p]) <= ObjectsPerPeer + MaxBatch
    BY Zenon, <1>1, <2>1, <2>2, Caps
  <2>4. Budget(bytes'[p], items'[p], batch'[p])
    BY Zenon, <1>1, <2>1, <2>3, EmptyBytes DEF Budget
  <2> QED
    BY Zenon, <1>2, <2>4, OneBudget
<1> QED
  BY Zenon, <1>3, <1>4

TotalInv == \A e \in Rolls : total = Sum(BytesAlong(e), Cardinality(Peers))

\* There is an order of the peers, and each has its place in it.
LEMMA RollCall ==
  /\ Cardinality(Peers) \in Nat
  /\ Rolls # {}
  /\ \A e \in Rolls : \A p \in Peers :
       \E k \in 1..Cardinality(Peers) :
         e[k] = p /\ \A i \in 1..Cardinality(Peers) : i # k => e[i] \in Peers /\ e[i] # p
<1>1. Cardinality(Peers) \in Nat /\ Rolls # {}
  BY OutboundConfig DEF Rolls, ExistsBijection
<1>2. ASSUME NEW e \in Rolls
      PROVE  /\ e \in [1..Cardinality(Peers) -> Peers]
             /\ \A p \in Peers : \E k \in 1..Cardinality(Peers) : e[k] = p
             /\ \A i, j \in 1..Cardinality(Peers) : e[i] = e[j] => i = j
  BY DEF Rolls, Bijection, Injection, Surjection, IsInjective
<1>3. ASSUME NEW e \in Rolls, NEW p \in Peers
      PROVE  \E k \in 1..Cardinality(Peers) :
               e[k] = p /\ \A i \in 1..Cardinality(Peers) : i # k => e[i] \in Peers /\ e[i] # p
  <2>1. PICK k \in 1..Cardinality(Peers) : e[k] = p
    BY Zenon, <1>2
  <2>2. \A i \in 1..Cardinality(Peers) : e[i] \in Peers
    BY <1>2
  <2>3. \A i \in 1..Cardinality(Peers) : i # k => e[i] # p
    BY Zenon, <1>2, <2>1
  <2> QED
    BY Zenon, <2>1, <2>2, <2>3
<1> QED
  BY Zenon, <1>1, <1>3

\* The bytes of one peer change with the total.
LEMMA TotalStep ==
  ASSUME TypeOK, TypeOK', TotalInv, NEW p \in Peers, \A q \in Peers : q # p => bytes'[q] = bytes[q],
         total' + bytes[p] = total + bytes'[p]
  PROVE  TotalInv'
<1> DEFINE N == Cardinality(Peers)
<1>1. SUFFICES ASSUME NEW e \in Rolls PROVE total' = Sum(BytesAlong(e)', N)
  BY DEF TotalInv, BytesAlong
<1>2. N \in Nat /\ bytes \in [Peers -> Nat] /\ bytes' \in [Peers -> Nat]
      /\ total \in Nat /\ total' \in Nat
  BY RollCall DEF TypeOK
<1>3. PICK k \in 1..N : e[k] = p /\ \A i \in 1..N : i # k => e[i] \in Peers /\ e[i] # p
  BY Zenon, RollCall
<1>4. PICK a, b : a = BytesAlong(e) /\ b = BytesAlong(e)'
  OBVIOUS
<1>5. \A i \in 1..N : e[i] \in Peers
  BY Zenon, <1>3
<1>6. a = [i \in 1..N |-> bytes[e[i]]] /\ b = [i \in 1..N |-> bytes'[e[i]]]
  BY <1>4 DEF BytesAlong
<1> HIDE DEF N
<1>7. a \in [1..N -> Nat] /\ b \in [1..N -> Nat] /\ a[k] = bytes[p] /\ b[k] = bytes'[p]
  BY <1>2, <1>3, <1>5, <1>6
<1>8. \A i \in 1..N : i # k => b[i] = a[i]
  BY <1>3, <1>6
<1>9. Sum(b, N) + a[k] = Sum(a, N) + b[k]
  BY Zenon, <1>2, <1>7, <1>8, SumChange
<1>10. total = Sum(a, N) /\ Sum(b, N) \in Nat
  BY Zenon, <1>2, <1>4, <1>7, SumBounds DEF TotalInv, N
<1>11. total' + bytes[p] = Sum(b, N) + bytes[p]
  BY Zenon, <1>7, <1>9, <1>10
<1>12. bytes[p] \in Nat
  BY <1>2
<1>13. total' = Sum(b, N)
  BY <1>2, <1>10, <1>11, <1>12
<1> QED
  BY Zenon, <1>4, <1>13 DEF N

\* No peer holds more bytes than the total counts.
LEMMA TotalCovers ==
  ASSUME TypeOK, TotalInv, NEW p \in Peers
  PROVE  bytes[p] \in Nat /\ total \in Nat /\ bytes[p] <= total
<1> DEFINE N == Cardinality(Peers)
<1>1. PICK e \in Rolls : TRUE
  BY RollCall
<1>2. N \in Nat /\ bytes \in [Peers -> Nat] /\ total \in Nat
  BY RollCall DEF TypeOK
<1>3. PICK k \in 1..N : e[k] = p /\ \A i \in 1..N : i # k => e[i] \in Peers /\ e[i] # p
  BY Zenon, RollCall
<1>4. PICK a : a = BytesAlong(e)
  OBVIOUS
<1>5. \A i \in 1..N : e[i] \in Peers
  BY Zenon, <1>3
<1>6. total = Sum(a, N)
  BY Zenon, <1>4 DEF TotalInv
<1>7. a = [i \in 1..N |-> bytes[e[i]]]
  BY <1>4 DEF BytesAlong
<1> HIDE DEF N
<1>8. a \in [1..N -> Nat] /\ a[k] = bytes[p]
  BY <1>2, <1>3, <1>5, <1>7
<1>9. a[k] <= Sum(a, N)
  BY Zenon, <1>2, <1>8, SumBounds
<1>10. bytes[p] \in Nat
  BY <1>2
<1> QED
  BY Zenon, <1>2, <1>6, <1>8, <1>9, <1>10

\* A pop takes from the total what it takes from the peer.
LEMMA PopTotal ==
  ASSUME TypeOK, TypeOK', BudgetInv, TotalInv, NEW p \in Peers, items[p] # <<>>, PopFront(p)
  PROVE  TotalInv'
<1>1. PICK h : h = Head(items[p]).size
  OBVIOUS
<1>2. /\ bytes'[p] = SaturatingSub(bytes[p], h) /\ total' = SaturatingSub(total, h)
      /\ items[p] \in Seq(QueuedObject) /\ bytes[p] = SeqBytes(items[p])
  BY Zenon, <1>1 DEF PopFront, TypeOK, BudgetInv, Budget
<1>3. h \in Nat /\ h <= bytes[p]
  <2>1. Head(items[p]) \in QueuedObject /\ Tail(items[p]) \in Seq(QueuedObject)
    BY <1>2, SeqTypes
  <2>2. h \in Nat /\ SeqBytes(Tail(items[p])) \in Nat
    BY Zenon, <1>1, <2>1, SeqBytesType, OutboundConfig DEF QueuedObject
  <2>3. bytes[p] = h + SeqBytes(Tail(items[p]))
    BY Zenon, <1>1, <1>2, PopBytes
  <2> QED
    BY <2>2, <2>3
<1>4. bytes[p] \in Nat /\ total \in Nat /\ bytes[p] <= total
  BY Zenon, TotalCovers
<1>5. \A x, y, z \in Nat : z <= x /\ x <= y =>
        SaturatingSub(y, z) + x = y + SaturatingSub(x, z)
  BY DEF SaturatingSub
<1>6. total' + bytes[p] = total + bytes'[p]
  <2>1. SaturatingSub(total, h) + bytes[p] = total + SaturatingSub(bytes[p], h)
    BY Zenon, <1>3, <1>4, <1>5
  <2> QED
    BY Zenon, <1>2, <2>1
<1> QED
  BY Zenon, <1>6, PopBudget, TotalStep

LEMMA RemoveTotal ==
  ASSUME TypeOK, TypeOK', TotalInv, NEW p \in Peers, CheckRemove(p)
  PROVE  TotalInv'
<1>1. /\ bytes'[p] = 0 /\ total' = SaturatingSub(total, bytes[p])
      /\ \A q \in Peers : q # p => bytes'[q] = bytes[q]
  BY Zenon DEF CheckRemove, Refunded, TypeOK
<1>2. bytes[p] \in Nat /\ total \in Nat /\ bytes[p] <= total
  BY Zenon, TotalCovers
<1>3. \A x, y \in Nat : x <= y => SaturatingSub(y, x) + x = y + 0
  BY DEF SaturatingSub
<1>4. total' + bytes[p] = total + bytes'[p]
  BY Zenon, <1>1, <1>2, <1>3
<1> QED
  BY Zenon, <1>1, <1>4, TotalStep

\* An object is added to the peer and to the total.
LEMMA AddTotal ==
  ASSUME TypeOK, TypeOK', TotalInv, NEW p \in Peers, NEW x \in QueuedObject,
         bytes' = [bytes EXCEPT ![p] = @ + x.size], total' = total + x.size
  PROVE  TotalInv'
<1>1. bytes[p] \in Nat /\ total \in Nat /\ x.size \in Nat
  BY Zenon, OutboundConfig DEF TypeOK, QueuedObject
<1>2. bytes'[p] = bytes[p] + x.size /\ \A q \in Peers : q # p => bytes'[q] = bytes[q]
  BY Zenon DEF TypeOK
<1>3. \A k, l, m \in Nat : (l + m) + k = l + (k + m)
  OBVIOUS
<1>4. total' + bytes[p] = total + bytes'[p]
  <2>1. (total + x.size) + bytes[p] = total + (bytes[p] + x.size)
    BY Zenon, <1>1, <1>3
  <2> QED
    BY Zenon, <1>2, <2>1
<1> QED
  BY Zenon, <1>2, <1>4, TotalStep

LEMMA SameTotal ==
  ASSUME TotalInv, UNCHANGED <<bytes, total>>
  PROVE  TotalInv'
  BY DEF TotalInv, BytesAlong

LEMMA StepBudget ==
  ASSUME ControlInv, BudgetInv, [Next]_vars
  PROVE  BudgetInv'
<1> USE DEF wakeVars, workerVars, callerVars, queueVars, historyVars
<1>0. TypeOK /\ CallerInv /\ EntryInv
  BY Zenon DEF ControlInv
<1>1. ASSUME NEW c \in Callers, NEW p \in Peers, NEW sz \in Sizes, NEW rt \in Routes,
             EnqueueLock(c, p, sz, rt)
      PROVE  BudgetInv'
  BY Zenon, <1>1, SameBudget DEF EnqueueLock
<1>2. ASSUME NEW c \in Callers, NEW p \in Peers, DropPeer(c, p) PROVE BudgetInv'
  BY Zenon, <1>2, SameBudget DEF DropPeer, MarkStopped
<1>3. ASSUME NEW c \in Callers, CallerStep(c) PROVE BudgetInv'
  <2>1. CASE DropOldestOwn(c)
    <3>1. PICK q \in Peers : q = target[c]
      BY Zenon, <1>0, <2>1 DEF DropOldestOwn, CallerInv
    <3>2. items[q] # <<>> /\ PopFront(q) /\ UNCHANGED batch
      BY Zenon, <2>1, <3>1 DEF DropOldestOwn, OverPeerCap
    <3> QED
      BY Zenon, <1>0, <3>2, LoseFront
  <2>2. ASSUME NEW q \in Peers, EvictLargest(c, q) PROVE BudgetInv'
    BY Zenon, <1>0, <2>2, LoseFront DEF EvictLargest
  <2>3. CASE RejectOversize(c) \/ RejectGlobal(c) \/ Spawn(c) \/ NotifyOne(c)
    BY Zenon, <2>3, SameBudget DEF RejectOversize, RejectGlobal, Spawn, NotifyOne
  <2>4. CASE Push(c)
    BY Zenon, <1>0, <2>4, PushBudget
  <2> QED
    BY Zenon, <1>3, <2>1, <2>2, <2>3, <2>4 DEF CallerStep
<1>4. ASSUME NEW p \in Peers, WorkerStep(p) PROVE BudgetInv'
  <2>1. CASE CheckRemove(p) \/ DispatchSuccess(p) \/ DispatchTerminal(p)
    BY Zenon, <1>0, <2>1, EmptyBudget DEF CheckRemove, DispatchSuccess, DispatchTerminal
  <2>2. CASE TakeStale(p)
    BY Zenon, <1>0, <2>2, LoseFront DEF TakeStale, BatchOpen
  <2>3. CASE TakeItem(p)
    BY Zenon, <1>0, <2>3, TakeBudget
  <2>4. CASE RequeueItem(p)
    BY Zenon, <1>0, <2>4, RequeueBudget
  <2>5. CASE RequeueLock(p)
    <3>1. entry[p]
      BY <1>0, <2>5 DEF RequeueLock, EntryInv
    <3> QED
      BY Zenon, <2>5, <3>1, SameBudget DEF RequeueLock
  <2>6. CASE Wake(p) \/ CheckContinue(p) \/ TakeLock(p) \/ TakeEnd(p) \/ MarkIdle(p)
    BY Zenon, <2>6, SameBudget DEF Wake, CheckContinue, TakeLock, TakeEnd, MarkIdle
  <2>7. CASE DispatchTransient(p) \/ RequeueEnd(p) \/ ClearInFlight(p) \/ ArmTimer(p)
    BY Zenon, <2>7, SameBudget DEF DispatchTransient, RequeueEnd, ClearInFlight, ArmTimer
  <2> QED
    BY Zenon, <1>4, <2>1, <2>2, <2>3, <2>4, <2>5, <2>6, <2>7 DEF WorkerStep
<1>5. ASSUME NEW p \in Peers, TimerFires(p) PROVE BudgetInv'
  BY Zenon, <1>5, SameBudget DEF TimerFires
<1>6. ASSUME NEW i \in 1..MaxObjects, Expire(i) PROVE BudgetInv'
  BY Zenon, <1>6, SameBudget DEF Expire
<1>7. CASE UNCHANGED vars
  BY Zenon, <1>7, SameBudget DEF vars
<1> QED
  BY Zenon, <1>1, <1>2, <1>3, <1>4, <1>5, <1>6, <1>7 DEF Next

LEMMA StepTotal ==
  ASSUME ControlInv, BudgetInv, TotalInv, [Next]_vars
  PROVE  TotalInv'
<1> USE DEF wakeVars, workerVars, callerVars, queueVars, historyVars
<1>0. TypeOK /\ TypeOK' /\ CallerInv
  BY Zenon, StepType DEF ControlInv
<1>1. ASSUME NEW c \in Callers, NEW p \in Peers, NEW sz \in Sizes, NEW rt \in Routes,
             EnqueueLock(c, p, sz, rt)
      PROVE  TotalInv'
  BY Zenon, <1>1, SameTotal DEF EnqueueLock
<1>2. ASSUME NEW c \in Callers, NEW p \in Peers, DropPeer(c, p) PROVE TotalInv'
  BY Zenon, <1>2, SameTotal DEF DropPeer
<1>3. ASSUME NEW c \in Callers, CallerStep(c) PROVE TotalInv'
  <2>0. caller[c] = "admit" => target[c] \in Peers /\ object[c] \in QueuedObject
    BY Zenon, <1>0 DEF CallerInv
  <2>1. CASE DropOldestOwn(c)
    <3>1. PICK q \in Peers : q = target[c]
      BY Zenon, <2>0, <2>1 DEF DropOldestOwn
    <3>2. items[q] # <<>> /\ PopFront(q)
      BY Zenon, <2>1, <3>1 DEF DropOldestOwn, OverPeerCap
    <3> QED
      BY Zenon, <1>0, <3>2, PopTotal
  <2>2. ASSUME NEW q \in Peers, EvictLargest(c, q) PROVE TotalInv'
    BY Zenon, <1>0, <2>2, PopTotal DEF EvictLargest
  <2>3. CASE RejectOversize(c) \/ RejectGlobal(c) \/ Spawn(c) \/ NotifyOne(c)
    BY Zenon, <2>3, SameTotal DEF RejectOversize, RejectGlobal, Spawn, NotifyOne
  <2>4. CASE Push(c)
    <3>1. PICK q \in Peers, x \in QueuedObject : q = target[c] /\ x = object[c]
      BY Zenon, <2>0, <2>4 DEF Push
    <3>2. bytes' = [bytes EXCEPT ![q] = @ + x.size] /\ total' = total + x.size
      BY Zenon, <2>4, <3>1 DEF Push
    <3> QED
      BY Zenon, <1>0, <3>2, AddTotal
  <2> QED
    BY Zenon, <1>3, <2>1, <2>2, <2>3, <2>4 DEF CallerStep
<1>4. ASSUME NEW p \in Peers, WorkerStep(p) PROVE TotalInv'
  <2>1. CASE CheckRemove(p)
    BY Zenon, <1>0, <2>1, RemoveTotal
  <2>2. CASE TakeStale(p) \/ TakeItem(p)
    BY Zenon, <1>0, <2>2, PopTotal DEF TakeStale, TakeItem, BatchOpen
  <2>3. CASE RequeueItem(p)
    <3>1. batch[p] \in Seq(QueuedObject) /\ batch[p] # <<>>
      BY Zenon, <1>0, <2>3 DEF TypeOK, RequeueItem
    <3>2. PICK x \in QueuedObject : x = batch[p][Len(batch[p])]
      BY <3>1, SeqTypes
    <3>3. bytes' = [bytes EXCEPT ![p] = @ + x.size] /\ total' = total + x.size
      BY Zenon, <2>3, <3>2 DEF RequeueItem, Restore, PutBack
    <3> QED
      BY Zenon, <1>0, <3>3, AddTotal
  <2>4. CASE Wake(p) \/ CheckContinue(p) \/ TakeLock(p) \/ TakeEnd(p) \/ MarkIdle(p)
    BY Zenon, <2>4, SameTotal DEF Wake, CheckContinue, TakeLock, TakeEnd, MarkIdle
  <2>5. CASE DispatchSuccess(p) \/ DispatchTerminal(p) \/ DispatchTransient(p)
    BY Zenon, <2>5, SameTotal DEF DispatchSuccess, DispatchTerminal, DispatchTransient
  <2>6. CASE RequeueLock(p) \/ RequeueEnd(p) \/ ClearInFlight(p) \/ ArmTimer(p)
    BY Zenon, <2>6, SameTotal DEF RequeueLock, RequeueEnd, ClearInFlight, ArmTimer
  <2> QED
    BY Zenon, <1>4, <2>1, <2>2, <2>3, <2>4, <2>5, <2>6 DEF WorkerStep
<1>5. ASSUME NEW p \in Peers, TimerFires(p) PROVE TotalInv'
  BY Zenon, <1>5, SameTotal DEF TimerFires
<1>6. ASSUME NEW i \in 1..MaxObjects, Expire(i) PROVE TotalInv'
  BY Zenon, <1>6, SameTotal DEF Expire
<1>7. CASE UNCHANGED vars
  BY Zenon, <1>7, SameTotal DEF vars
<1> QED
  BY Zenon, <1>1, <1>2, <1>3, <1>4, <1>5, <1>6, <1>7 DEF Next

LEMMA InitBudget == Init => BudgetInv /\ TotalInv
<1> SUFFICES ASSUME Init PROVE BudgetInv /\ TotalInv
  OBVIOUS
<1>1. ASSUME NEW p \in Peers PROVE Budget(bytes[p], items[p], batch[p])
  <2>1. bytes[p] = 0 /\ items[p] = <<>> /\ batch[p] = <<>> /\ Len(<<>>) = 0
    BY DEF Init
  <2>2. 0 <= MaxBatch /\ 0 + 0 <= ObjectsPerPeer + MaxBatch
    BY OutboundConfig
  <2> QED
    BY Zenon, <2>1, <2>2, EmptyBytes DEF Budget
<1>2. ASSUME NEW e \in Rolls PROVE total = Sum(BytesAlong(e), Cardinality(Peers))
  <2> DEFINE N == Cardinality(Peers)
             a == BytesAlong(e)
             R == RunningSum(a, N)
             T == {k \in Nat : k <= N => R[k] = 0}
  <2>1. N \in Nat /\ \A i \in 1..N : e[i] \in Peers
    BY RollCall DEF Rolls, Bijection, Injection
  <2>2. a \in [1..N -> Nat] /\ \A i \in 1..N : a[i] = 0
    BY <2>1 DEF BytesAlong, Init
  <2> HIDE DEF a, N
  <2>3. R[0] = 0 /\ \A i \in 1..N : R[i] = R[i - 1] + a[i]
    BY <2>1, <2>2, RunningSumStep
  <2> HIDE DEF R
  <2>4. 0 \in T
    BY <2>3
  <2>5. ASSUME NEW k \in T PROVE k + 1 \in T
    <3>1. SUFFICES ASSUME k + 1 <= N PROVE R[k + 1] = 0
      BY <2>5
    <3>2. k + 1 \in 1..N /\ (k + 1) - 1 = k /\ k <= N
      BY <2>1, <2>5, <3>1
    <3> QED
      BY <2>2, <2>3, <2>5, <3>2
  <2> HIDE DEF T
  <2>6. T = Nat
    <3>1. T \subseteq Nat
      BY DEF T
    <3> QED
      BY <2>4, <2>5, <3>1, SetInduction
  <2>7. R[N] = 0
    BY <2>1, <2>6 DEF T
  <2> QED
    BY <2>7 DEF Sum, Init, R, a, N
<1> QED
  BY Zenon, <1>1, <1>2 DEF BudgetInv, TotalInv

\* The byte counters are sums: a peer's over what it has queued, the process's
\* over the peers; and a queue with the batch in flight exceeds its cap by one
\* batch at most.
THEOREM BudgetIsKept == Spec => [](ByteAccounting /\ BoundedOvershoot)
<1>1. Init => BudgetInv /\ TotalInv
  BY InitBudget
<1>2. ControlInv /\ (BudgetInv /\ TotalInv) /\ [Next]_vars => (BudgetInv /\ TotalInv)'
  BY StepBudget, StepTotal
<1>3. BudgetInv /\ TotalInv => ByteAccounting /\ BoundedOvershoot
  BY Zenon DEF BudgetInv, TotalInv, Budget, ByteAccounting, BoundedOvershoot
<1> QED
  BY <1>1, <1>2, <1>3, ControlInvariant, PTL DEF Spec

\* What is queued is accounted for, object by object and byte by byte, and keeps
\* to the cap but for a batch.
THEOREM QueuesConserve == Spec => []Conservation
<1>1. TypeOK /\ OnePlaceEach /\ (ByteAccounting /\ BoundedOvershoot) => Conservation
  BY DEF Conservation
<1> QED
  BY <1>1, TypeCorrect, ObjectsAreConserved, BudgetIsKept, PTL

=============================================================================
