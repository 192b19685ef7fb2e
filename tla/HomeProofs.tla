---------------------------- MODULE HomeProofs ----------------------------
(***************************************************************************)
(* What an instance keeps in bounds and in order for its users and peers,  *)
(* proved for any number of requests, values and caps.                     *)
(*                                                                         *)
(* The runtime configuration (admin_config.rs): what a request still has   *)
(* to write is ordered as a whole, although its snapshot may be stale,     *)
(* because every column of a group is written together; and what it has to *)
(* mirror was committed.                                                   *)
(*                                                                         *)
(* The storage budget (upload.rs): spent and left together never exceed    *)
(* the largest bucket and what the largest refill has added.               *)
(*                                                                         *)
(* The rate limiters: an entry counts what was let through since its start *)
(* and the window's length before that start saw at most one cap, so that  *)
(* any interval of that length sees at most two.                           *)
(***************************************************************************)
EXTENDS RuntimeConfig, RateLimits, TLAPS

Running(c) == patch[c].pc \in {"begun", "mirrors"}

\* Inductive: what a request still has to write is ordered as a whole, although its
\* snapshot may be stale, because every column of a group is written together.
OrderInv ==
  /\ DOMAIN patch = Patches
  /\ \A c \in Patches : {"pc", "snap", "left"} \subseteq DOMAIN patch[c]
  /\ Ordered(stored) /\ Ordered(mirror)
  /\ \A c \in Patches : Running(c) /\ Schedule \in patch[c].left => Ordered(Candidate(c, patch[c].snap))

\* Inductive: the row's groups, and those a committed request still has to mirror, are
\* values the row has had.
AheadInv ==
  /\ DOMAIN patch = Patches
  /\ \A c \in Patches : {"pc", "snap", "left"} \subseteq DOMAIN patch[c] /\ patch[c].left \subseteq Groups
  /\ \A g \in Groups : Part(stored, g) \in committed /\ Part(mirror, g) \in committed
  /\ \A c \in Patches : patch[c].pc = "mirrors" =>
       \A g \in patch[c].left : Part(Candidate(c, patch[c].snap), g) \in committed

-----------------------------------------------------------------------------
(* The groups.                                                             *)

\* No field is in two groups.
LEMMA GroupsDisjoint == \A g, h \in Groups : g # h => g \cap h = {}
  BY DEF Groups, Schedule, Budget, Url

LEMMA GroupFields == \A g \in Groups : g \subseteq Fields
  BY DEF Fields

\* Writing one group of a mirror gives that group the candidate's values and leaves the
\* others alone.
LEMMA MirroredParts ==
  ASSUME NEW c \in Patches, NEW g \in Groups, NEW h \in Groups
  PROVE  Part(Mirrored(c, g), h) = IF h = g THEN Part(Candidate(c, patch[c].snap), h) ELSE Part(mirror, h)
<1>1. \A f \in h : f \in Fields /\ (f \in g <=> h = g)
  BY GroupsDisjoint, GroupFields
<1>2. \A f \in h : Mirrored(c, g)[f] = IF h = g THEN Candidate(c, patch[c].snap)[f] ELSE mirror[f]
  BY <1>1 DEF Mirrored
<1> QED
  BY <1>2 DEF Part

\* Saving some groups gives each of them the candidate's values.
LEMMA SavedParts ==
  ASSUME NEW row, NEW cand, NEW groups \in SUBSET Groups, NEW h \in groups
  PROVE  Part(Saved(row, cand, groups), h) = Part(cand, h)
<1>1. \A f \in h : f \in Fields /\ \E g \in groups : f \in g
  BY GroupFields
<1>2. \A f \in h : Saved(row, cand, groups)[f] = cand[f]
  BY <1>1 DEF Saved
<1> QED
  BY <1>2 DEF Part

\* The schedule of a mirror depends on its schedule fields only.
LEMMA OrderedPart == ASSUME NEW a, NEW b, Part(a, Schedule) = Part(b, Schedule), Ordered(a) PROVE Ordered(b)
<1>1. \A f \in Schedule : a[f] = b[f]
  <2>1. \A f \in Schedule : Part(a, Schedule)[f] = a[f] /\ Part(b, Schedule)[f] = b[f]
    BY DEF Part
  <2> QED
    BY <2>1
<1>2. "debounce" \in Schedule /\ "min" \in Schedule /\ "max" \in Schedule
  BY DEF Schedule
<1> QED
  BY <1>1, <1>2 DEF Ordered

-----------------------------------------------------------------------------
(* The schedule.                                                           *)

LEMMA OrderStep == OrderInv /\ [ConfigNext]_configVars => OrderInv'
<1> SUFFICES ASSUME OrderInv, [ConfigNext]_configVars PROVE OrderInv'
  OBVIOUS
<1>1. ASSUME NEW c \in Patches, Begin(c) PROVE OrderInv'
  <2> DEFINE groups == Changed(c, mirror)
             bad == Schedule \in groups /\ ~Ordered(Candidate(c, mirror))
  <2>1. patch' = [patch EXCEPT ![c] = [pc |-> IF bad \/ groups = {} THEN "done" ELSE "begun",
                                       snap |-> mirror, left |-> IF bad THEN {} ELSE groups]]
    BY <1>1 DEF Begin
  <2>2. UNCHANGED <<stored, mirror>>
    BY <1>1 DEF Begin
  <2>3. \A d \in Patches \ {c} : patch'[d] = patch[d]
    BY <2>1 DEF OrderInv
  <2>4. patch'[c] = [pc |-> IF bad \/ groups = {} THEN "done" ELSE "begun",
                     snap |-> mirror, left |-> IF bad THEN {} ELSE groups]
    BY <2>1 DEF OrderInv
  <2>5. DOMAIN patch' = Patches /\ \A d \in Patches : {"pc", "snap", "left"} \subseteq DOMAIN patch'[d]
    BY <2>1, <2>3, <2>4 DEF OrderInv
  <2>6. ASSUME Running(c)', Schedule \in patch'[c].left PROVE Ordered(Candidate(c, patch'[c].snap))
    <3>1. ~bad /\ patch'[c].snap = mirror /\ patch'[c].left = groups
      BY <2>4, <2>6 DEF Running
    <3> QED
      BY <3>1, <2>6
  <2>7. ASSUME NEW d \in Patches, Running(d)', Schedule \in patch'[d].left
        PROVE  Ordered(Candidate(d, patch'[d].snap))
    <3>1. CASE d = c
      BY <3>1, <2>6, <2>7
    <3>2. CASE d # c
      BY <3>2, <2>3, <2>7 DEF OrderInv, Running
    <3> QED
      BY <3>1, <3>2
  <2>8. Ordered(stored)' /\ Ordered(mirror)'
    BY <2>2 DEF OrderInv, Ordered
  <2> QED
    BY <2>5, <2>7, <2>8 DEF OrderInv, Candidate
<1>2. ASSUME NEW c \in Patches, Commit(c) \/ CommitFails(c) PROVE OrderInv'
  <2>1. /\ \E p \in {"mirrors", "done"} : patch' = [patch EXCEPT ![c].pc = p]
        /\ patch[c].pc = "begun" /\ mirror' = mirror
        /\ stored' = stored \/ Ordered(stored')
    BY <1>2 DEF Commit, CommitFails, AfterFailure
  <2>2. /\ DOMAIN patch' = Patches /\ \A d \in Patches : {"pc", "snap", "left"} \subseteq DOMAIN patch'[d]
        /\ \A d \in Patches : patch'[d].snap = patch[d].snap /\ patch'[d].left = patch[d].left
        /\ \A d \in Patches : patch'[d].pc \in {"begun", "mirrors"} => patch[d].pc \in {"begun", "mirrors"}
    BY <2>1 DEF OrderInv
  <2>3. Ordered(stored)' /\ Ordered(mirror)'
    BY <2>1 DEF OrderInv, Ordered
  <2> QED
    BY <2>2, <2>3 DEF OrderInv, Running, Candidate
<1>3. ASSUME NEW c \in Patches, WriteMirror(c) PROVE OrderInv'
  <2>1. PICK g \in Groups : /\ g \in patch[c].left /\ mirror' = Mirrored(c, g)
                            /\ patch' = [patch EXCEPT ![c].left = @ \ {g},
                                           ![c].pc = IF patch[c].left = {g} THEN "done" ELSE @]
    BY <1>3, Zenon DEF WriteMirror, Turn
  <2>2. patch[c].pc = "mirrors" /\ UNCHANGED stored
    BY <1>3 DEF WriteMirror
  <2>3. /\ DOMAIN patch' = Patches /\ \A d \in Patches : {"pc", "snap", "left"} \subseteq DOMAIN patch'[d]
        /\ \A d \in Patches : patch'[d].snap = patch[d].snap /\ patch'[d].left \subseteq patch[d].left
        /\ \A d \in Patches : patch'[d].pc \in {"begun", "mirrors"} => patch[d].pc \in {"begun", "mirrors"}
    BY <2>1, <2>2 DEF OrderInv
  <2>4. Ordered(mirror')
    <3>1. Schedule \in Groups
      BY DEF Groups
    <3>2. CASE g = Schedule
      <4>1. Ordered(Candidate(c, patch[c].snap))
        BY <2>1, <2>2, <3>2 DEF OrderInv, Running
      <4>2. Part(mirror', Schedule) = Part(Candidate(c, patch[c].snap), Schedule)
        BY <2>1, <3>1, <3>2, MirroredParts
      <4> QED
        BY <4>1, <4>2, OrderedPart
    <3>3. CASE g # Schedule
      <4>1. Part(mirror', Schedule) = Part(mirror, Schedule)
        BY <2>1, <3>1, <3>3, MirroredParts
      <4> QED
        BY <4>1, OrderedPart DEF OrderInv
    <3> QED
      BY <3>2, <3>3
  <2>5. Ordered(stored)' /\ Ordered(mirror)'
    BY <2>2, <2>4 DEF OrderInv, Ordered
  <2> QED
    BY <2>3, <2>5 DEF OrderInv, Running, Candidate
<1>4. ASSUME Restart PROVE OrderInv'
  <2>1. /\ mirror' = stored /\ stored' = stored
        /\ patch' = [c \in Patches |-> IF patch[c].pc \in {"begun", "mirrors"}
                                     THEN [patch[c] EXCEPT !.pc = "done"] ELSE patch[c]]
    BY <1>4 DEF Restart
  <2>2. /\ DOMAIN patch' = Patches
        /\ \A c \in Patches : {"pc", "snap", "left"} \subseteq DOMAIN patch'[c]
        /\ \A c \in Patches : patch'[c].pc \notin {"begun", "mirrors"}
    BY <2>1 DEF OrderInv
  <2>3. Ordered(stored)' /\ Ordered(mirror)'
    BY <2>1 DEF OrderInv, Ordered
  <2> QED
    BY <2>2, <2>3 DEF OrderInv, Running
<1>5. CASE UNCHANGED <<stored, mirror, patch>>
  BY <1>5 DEF OrderInv, Running, Ordered, Candidate
<1> QED
  BY <1>1, <1>2, <1>3, <1>4, <1>5 DEF ConfigNext, UploadReads, Debit, TickPasses, configVars

\* The rebuild loop never reads a schedule out of order (validate_rebuild_schedule and the
\* mirror writes of patch_config).
THEOREM ScheduleStaysOrdered == ConfigSpec => []LoopScheduleOrdered
<1>1. ConfigInit => OrderInv
  BY ConfigValues DEF ConfigInit, OrderInv, Running, Ordered
<1>2. OrderInv /\ [ConfigNext]_configVars => OrderInv'
  BY OrderStep
<1>3. OrderInv => LoopScheduleOrdered
  BY DEF OrderInv, LoopScheduleOrdered
<1> QED
  BY <1>1, <1>2, <1>3, PTL DEF ConfigSpec

-----------------------------------------------------------------------------
(* The mirrors and the row.                                                *)

\* A step that keeps the snapshots, lets no request into "mirrors" and drops at most
\* groups to mirror keeps what the requests owe.
LEMMA OwedKept ==
  ASSUME AheadInv, committed \subseteq committed', NEW d \in Patches, patch'[d].pc = "mirrors", patch[d].pc = "mirrors",
         patch'[d].snap = patch[d].snap, patch'[d].left \subseteq patch[d].left
  PROVE  \A g \in patch'[d].left : Part(Candidate(d, patch'[d].snap), g) \in committed'
  BY DEF AheadInv

LEMMA AheadStep == AheadInv /\ [ConfigNext]_configVars => AheadInv'
<1> SUFFICES ASSUME AheadInv, [ConfigNext]_configVars PROVE AheadInv'
  OBVIOUS
<1>1. ASSUME NEW c \in Patches, Begin(c) PROVE AheadInv'
  <2>1. \E p \in {"done", "begun"}, l \in SUBSET Groups :
          patch' = [patch EXCEPT ![c] = [pc |-> p, snap |-> mirror, left |-> l]]
    <3>1. Changed(c, mirror) \in SUBSET Groups /\ {} \in SUBSET Groups
      BY DEF Changed
    <3> QED
      BY <1>1, <3>1, Zenon DEF Begin
  <2>2. UNCHANGED <<stored, mirror, committed>>
    BY <1>1 DEF Begin
  <2>3. /\ DOMAIN patch' = Patches
        /\ \A d \in Patches : {"pc", "snap", "left"} \subseteq DOMAIN patch'[d] /\ patch'[d].left \subseteq Groups
        /\ \A d \in Patches : patch'[d].pc = "mirrors" => patch'[d] = patch[d]
    BY <2>1 DEF AheadInv
  <2> QED
    BY <2>2, <2>3 DEF AheadInv, Part, Candidate
<1>2. ASSUME NEW c \in Patches, Commit(c) PROVE AheadInv'
  <2> DEFINE cand == Candidate(c, patch[c].snap)
             row == Saved(stored, cand, patch[c].left)
  <2>1. /\ stored' = row /\ committed' = committed \union {Part(row, g) : g \in Groups}
        /\ patch' = [patch EXCEPT ![c].pc = "mirrors"] /\ UNCHANGED mirror
    BY <1>2 DEF Commit
  <2>2. /\ DOMAIN patch' = Patches
        /\ \A d \in Patches : {"pc", "snap", "left"} \subseteq DOMAIN patch'[d]
        /\ \A d \in Patches : patch'[d].snap = patch[d].snap /\ patch'[d].left = patch[d].left
        /\ \A d \in Patches \ {c} : patch'[d].pc = patch[d].pc
    BY <2>1 DEF AheadInv
  <2>3. \A g \in Groups : Part(stored', g) \in committed' /\ Part(mirror', g) \in committed'
    BY <2>1 DEF AheadInv
  <2>4. ASSUME NEW g \in patch[c].left PROVE Part(cand, g) \in committed'
    <3>1. patch[c].left \in SUBSET Groups
      BY DEF AheadInv
    <3>2. Part(row, g) = Part(cand, g)
      BY <3>1, SavedParts
    <3> QED
      BY <2>1, <3>1, <3>2
  <2>5. ASSUME NEW d \in Patches, patch'[d].pc = "mirrors"
        PROVE  \A g \in patch'[d].left : Part(Candidate(d, patch'[d].snap), g) \in committed'
    <3>1. CASE d = c
      BY <3>1, <2>2, <2>4
    <3>2. CASE d # c
      BY <3>2, <2>1, <2>2, <2>5, OwedKept
    <3> QED
      BY <3>1, <3>2
  <2> QED
    BY <2>2, <2>3, <2>5 DEF AheadInv, Part, Candidate
<1>3. ASSUME NEW c \in Patches, CommitFails(c) PROVE AheadInv'
  <2>1. patch' = [patch EXCEPT ![c].pc = "done"] /\ UNCHANGED <<stored, mirror, committed>>
    BY <1>3 DEF CommitFails, AfterFailure
  <2>2. /\ DOMAIN patch' = Patches
        /\ \A d \in Patches : {"pc", "snap", "left"} \subseteq DOMAIN patch'[d] /\ patch'[d].left \subseteq Groups
        /\ \A d \in Patches : patch'[d].pc = "mirrors" => patch'[d] = patch[d]
    BY <2>1 DEF AheadInv
  <2> QED
    BY <2>1, <2>2 DEF AheadInv, Part, Candidate
<1>4. ASSUME NEW c \in Patches, WriteMirror(c) PROVE AheadInv'
  <2>1. PICK g \in Groups : /\ g \in patch[c].left /\ mirror' = Mirrored(c, g)
                            /\ patch' = [patch EXCEPT ![c].left = @ \ {g},
                                           ![c].pc = IF patch[c].left = {g} THEN "done" ELSE @]
    BY <1>4, Zenon DEF WriteMirror, Turn
  <2>2. patch[c].pc = "mirrors" /\ UNCHANGED <<stored, committed>>
    BY <1>4 DEF WriteMirror
  <2>3. /\ DOMAIN patch' = Patches /\ \A d \in Patches : {"pc", "snap", "left"} \subseteq DOMAIN patch'[d]
        /\ \A d \in Patches : patch'[d].snap = patch[d].snap /\ patch'[d].left \subseteq patch[d].left
        /\ \A d \in Patches : patch'[d].pc = "mirrors" => patch[d].pc = "mirrors"
    BY <2>1, <2>2 DEF AheadInv
  <2>4. ASSUME NEW h \in Groups PROVE Part(mirror', h) \in committed
    <3>1. CASE h = g
      <4>1. Part(mirror', h) = Part(Candidate(c, patch[c].snap), h)
        BY <2>1, <3>1, MirroredParts
      <4> QED
        BY <4>1, <3>1, <2>1, <2>2 DEF AheadInv
    <3>2. CASE h # g
      <4>1. Part(mirror', h) = Part(mirror, h)
        BY <2>1, <3>2, MirroredParts
      <4> QED
        BY <4>1 DEF AheadInv
    <3> QED
      BY <3>1, <3>2
  <2>5. ASSUME NEW d \in Patches, patch'[d].pc = "mirrors"
        PROVE  \A h \in patch'[d].left : Part(Candidate(d, patch'[d].snap), h) \in committed'
    BY <2>2, <2>3, <2>5, OwedKept
  <2>6. \A h \in Groups : Part(stored', h) \in committed' /\ Part(mirror', h) \in committed'
    BY <2>2, <2>4 DEF AheadInv
  <2>7. \A d \in Patches : patch'[d].left \subseteq Groups
    BY <2>3 DEF AheadInv
  <2> QED
    BY <2>3, <2>5, <2>6, <2>7 DEF AheadInv, Part, Candidate
<1>5. ASSUME Restart PROVE AheadInv'
  <2>1. /\ mirror' = stored /\ UNCHANGED <<stored, committed>>
        /\ patch' = [c \in Patches |-> IF patch[c].pc \in {"begun", "mirrors"}
                                     THEN [patch[c] EXCEPT !.pc = "done"] ELSE patch[c]]
    BY <1>5 DEF Restart
  <2>2. /\ DOMAIN patch' = Patches
        /\ \A c \in Patches : {"pc", "snap", "left"} \subseteq DOMAIN patch'[c] /\ patch'[c].left \subseteq Groups
        /\ \A c \in Patches : patch'[c].pc # "mirrors"
    BY <2>1 DEF AheadInv
  <2>3. \A h \in Groups : Part(stored', h) \in committed' /\ Part(mirror', h) \in committed'
    BY <2>1 DEF AheadInv
  <2> QED
    BY <2>2, <2>3 DEF AheadInv, Part
<1>6. CASE UNCHANGED <<stored, mirror, patch, committed>>
  BY <1>6 DEF AheadInv, Part, Candidate
<1> QED
  BY <1>1, <1>2, <1>3, <1>4, <1>5, <1>6 DEF ConfigNext, UploadReads, Debit, TickPasses, configVars

\* No mirror holds a value that its columns never had (patch_config): "a rollback can't
\* leave them ahead of the DB", whatever requests overlap, fail or die with the process.
THEOREM MirrorsNeverAhead == ConfigSpec => []MirrorNotAhead
<1>1. ConfigInit => AheadInv
  BY DEF ConfigInit, AheadInv, Part
<1>2. AheadInv /\ [ConfigNext]_configVars => AheadInv'
  BY AheadStep
<1>3. AheadInv => MirrorNotAhead
  BY DEF AheadInv, MirrorNotAhead
<1> QED
  BY <1>1, <1>2, <1>3, PTL DEF ConfigSpec

-----------------------------------------------------------------------------
(* The storage budget.                                                     *)

\* The configurations there can be: each field has one of its values.
Config == {h \in [Fields -> Nat] : \A f \in Fields : h[f] \in ValuesOf(f)}
PatchRow == [pc : {"new", "begun", "mirrors", "done"}, snap : Config, left : SUBSET Groups]
UploadRow == [pc : {"new", "read", "done"}, cap : {0} \cup ValuesOf("cap"), refill : {0} \cup ValuesOf("refill")]
BucketRow == [row : BOOLEAN, avail : Nat, at : 0 .. LastTick, spent : Nat]

\* Inductive: what was spent and what is left never exceed the largest bucket and what the
\* largest refill has added up to the last debit.
SpendInv ==
  /\ stored \in Config /\ mirror \in Config
  /\ patch \in [Patches -> PatchRow] /\ upload \in [Uploads -> UploadRow]
  /\ bucket \in BucketRow /\ tick \in 0 .. LastTick /\ restarts \in 0 .. MaxRestarts
  /\ bucket.at <= tick
  /\ ~bucket.row => bucket.spent = 0
  /\ \A cap, refill \in Nat : bucket.row /\ IsTop(cap, "cap") /\ IsTop(refill, "refill") =>
       (bucket.spent + bucket.avail) * DayTicks <= cap * DayTicks + refill * bucket.at

-----------------------------------------------------------------------------
(* The amounts.                                                            *)

LEMMA ValuesAreNat == \A f \in Fields : ValuesOf(f) \subseteq Nat /\ Start[f] \in ValuesOf(f)
  BY ConfigValues DEF ValuesOf

LEMMA BudgetFields == "cap" \in Fields /\ "refill" \in Fields
  BY DEF Fields, Groups, Budget

LEMMA CandidateValues == ASSUME NEW c \in Patches, NEW h \in Config PROVE Candidate(c, h) \in Config
<1>1. ASSUME NEW f \in Fields
      PROVE  (IF f \in DOMAIN Body[c] THEN Body[c][f] ELSE h[f]) \in ValuesOf(f)
  BY DEF Config, ValuesOf
<1> QED
  BY <1>1, ValuesAreNat DEF Candidate, Config

LEMMA SavedValues ==
  ASSUME NEW h \in Config, NEW k \in Config, NEW groups PROVE Saved(h, k, groups) \in Config
  BY DEF Saved, Config

LEMMA MirroredValues ==
  ASSUME NEW c \in Patches, NEW g, mirror \in Config, patch[c].snap \in Config PROVE Mirrored(c, g) \in Config
  BY CandidateValues DEF Mirrored, Config

LEMMA Products ==
  ASSUME NEW x \in Nat, NEW y \in Nat, NEW z \in Nat
  PROVE  x * z \in Nat /\ (x + y) * z = x * z + y * z /\ z * (x + y) = z * x + z * y /\ (x <= y => x * z <= y * z)
  OBVIOUS

LEMMA Division == ASSUME NEW x \in Nat, NEW d \in Nat \ {0} PROVE x \div d \in Nat /\ (x \div d) * d <= x
  OBVIOUS

\* A debit of what a bucket of at most the largest cap holds after its refill.
LEMMA Refill ==
  ASSUME NEW spent \in Nat, NEW avail \in Nat, NEW at \in Nat, NEW until \in Nat, at <= until,
         NEW cap \in Nat, NEW refill \in Nat, NEW r \in Nat, r <= refill, DayTicks \in Nat \ {0},
         (spent + avail) * DayTicks <= cap * DayTicks + refill * at
  PROVE  (spent + (avail + (r * (until - at)) \div DayTicks)) * DayTicks <= cap * DayTicks + refill * until
<1> DEFINE w == until - at
           x == r * w
           q == x \div DayTicks
<1>1. w \in Nat /\ at + w = until
  OBVIOUS
<1>2. x \in Nat /\ x <= refill * w /\ refill * w \in Nat
  BY <1>1, Products
<1>3. q \in Nat /\ q * DayTicks <= x
  BY <1>2, Division
<1>4. refill * until = refill * at + refill * w /\ refill * at \in Nat
  BY <1>1, Products
<1> HIDE DEF w, x, q
<1>5. spent + (avail + q) = (spent + avail) + q /\ spent + avail \in Nat
  BY <1>3
<1>6. ((spent + avail) + q) * DayTicks = (spent + avail) * DayTicks + q * DayTicks
  BY <1>3, <1>5, Products
<1>7. (spent + avail) * DayTicks \in Nat /\ q * DayTicks \in Nat /\ cap * DayTicks \in Nat
  BY <1>3, <1>5, Products
<1> DEFINE A == (spent + avail) * DayTicks  B == q * DayTicks  C == cap * DayTicks
           D == refill * at  E == refill * w
<1>8. (spent + (avail + q)) * DayTicks = A + B /\ refill * until = D + E
  BY <1>4, <1>5, <1>6
<1>9. A \in Nat /\ B \in Nat /\ C \in Nat /\ D \in Nat /\ E \in Nat /\ A <= C + D /\ B <= x /\ x <= E
  BY <1>2, <1>3, <1>4, <1>7
<1> HIDE DEF A, B, C, D, E
<1>10. (spent + (avail + q)) * DayTicks <= C + refill * until
  BY <1>2, <1>8, <1>9
<1> QED
  BY <1>10 DEF C, q, x, w

-----------------------------------------------------------------------------
(* The steps.                                                              *)

LEMMA DebitStep == ASSUME SpendInv, NEW u \in Uploads, Debit(u) PROVE SpendInv'
<1> DEFINE full == bucket.avail + (upload[u].refill * (tick - bucket.at)) \div DayTicks
           n == Refilled(u)
<1>c. Size[u] \in Nat /\ DayTicks \in Nat \ {0} /\ LastTick \in Nat
  BY ConfigValues
<1>v. ValuesOf("cap") \subseteq Nat /\ ValuesOf("refill") \subseteq Nat
  BY ValuesAreNat, BudgetFields
<1>t. /\ bucket \in BucketRow /\ upload \in [Uploads -> UploadRow] /\ tick \in 0 .. LastTick /\ bucket.at <= tick
      /\ ~bucket.row => bucket.spent = 0
  BY DEF SpendInv
<1>f. /\ bucket.avail \in Nat /\ bucket.at \in 0 .. LastTick /\ bucket.spent \in Nat
      /\ upload[u].cap \in {0} \cup ValuesOf("cap") /\ upload[u].refill \in {0} \cup ValuesOf("refill")
  BY <1>t DEF BucketRow, UploadRow
<1>u. UNCHANGED <<stored, mirror, patch, tick, restarts>> /\ upload' = [upload EXCEPT ![u].pc = "done"]
  BY DEF Debit
<1>1. upload' \in [Uploads -> UploadRow]
  BY <1>t, <1>u DEF UploadRow
<1>2. CASE n < Size[u]
  BY <1>1, <1>2, <1>u DEF Debit, SpendInv
<1>3. CASE ~(n < Size[u])
  <2>1. bucket' = [row |-> TRUE, avail |-> n - Size[u], at |-> tick, spent |-> bucket.spent + Size[u]]
    BY <1>3 DEF Debit, Stamp
  <2>2. tick - bucket.at \in Nat /\ upload[u].refill * (tick - bucket.at) \in Nat
    BY <1>f, <1>t, <1>c, <1>v, Products
  <2>3. full \in Nat
    BY <2>2, <1>c, <1>f, Division
  <2>4. n = (IF bucket.row /\ full < upload[u].cap THEN full ELSE upload[u].cap)
    BY DEF Refilled
  <2>5. n \in Nat
    BY <2>3, <2>4, <1>f, <1>v
  <2>6. n - Size[u] \in Nat /\ (bucket.spent + Size[u]) + (n - Size[u]) = bucket.spent + n
    BY <2>5, <1>3, <1>c, <1>f
  <2>7. bucket' \in BucketRow
    BY <2>1, <2>6, <1>c, <1>f, <1>t DEF BucketRow
  <2>8. ASSUME NEW cap \in Nat, NEW refill \in Nat, IsTop(cap, "cap"), IsTop(refill, "refill")
        PROVE  (bucket.spent + n) * DayTicks <= cap * DayTicks + refill * tick
    <3>1. upload[u].cap <= cap /\ upload[u].refill <= refill
      BY <2>8, <1>f, <1>v DEF IsTop
    <3>2. CASE ~bucket.row
      <4>1. bucket.spent + n <= cap /\ bucket.spent + n \in Nat
        BY <3>1, <3>2, <2>4, <2>5, <1>t, <1>f, <1>v
      <4>2. (bucket.spent + n) * DayTicks <= cap * DayTicks /\ refill * tick \in Nat
        BY <4>1, <1>c, <1>t, Products
      <4> DEFINE A == (bucket.spent + n) * DayTicks  B == cap * DayTicks  C == refill * tick
      <4>3. A \in Nat /\ B \in Nat
        BY <4>1, <1>c, Products
      <4> HIDE DEF A, B, C
      <4> QED
        BY <4>2, <4>3 DEF A, B, C
    <3>3. CASE bucket.row
      <4>1. (bucket.spent + bucket.avail) * DayTicks <= cap * DayTicks + refill * bucket.at
        BY <2>8, <3>3 DEF SpendInv
      <4>2. (bucket.spent + full) * DayTicks <= cap * DayTicks + refill * tick
        <5>1. bucket.at \in Nat /\ tick \in Nat /\ bucket.at <= tick /\ upload[u].refill \in Nat
          BY <1>c, <1>f, <1>t, <1>v
        <5> QED
          BY <4>1, <3>1, <5>1, <1>c, <1>f, Refill, Zenon
      <4>3. n <= full
        BY <3>3, <2>3, <2>4, <1>f, <1>v
      <4>4. bucket.spent + n <= bucket.spent + full /\ bucket.spent + n \in Nat /\ bucket.spent + full \in Nat
        BY <4>3, <2>3, <2>5, <1>f
      <4>5. (bucket.spent + n) * DayTicks <= (bucket.spent + full) * DayTicks
        BY <4>4, <1>c, Products
      <4> DEFINE A == (bucket.spent + n) * DayTicks  B == (bucket.spent + full) * DayTicks
                 C == cap * DayTicks  D == refill * tick
      <4>6. A \in Nat /\ B \in Nat /\ C \in Nat /\ D \in Nat
        BY <4>4, <1>c, <1>t, Products
      <4> HIDE DEF A, B, C, D, full, n
      <4> QED
        BY <4>2, <4>5, <4>6 DEF A, B, C, D
    <3> QED
      BY <3>2, <3>3
  <2>9. /\ bucket'.row /\ bucket'.at = tick /\ bucket'.spent + bucket'.avail = bucket.spent + n
    BY <2>1, <2>6
  <2> HIDE DEF n, full
  <2> QED
    BY <2>7, <2>8, <2>9, <1>1, <1>t, <1>u DEF SpendInv
<1> QED
  BY <1>2, <1>3

LEMMA SpendStep == SpendInv /\ [ConfigNext]_configVars => SpendInv'
<1> SUFFICES ASSUME SpendInv, [ConfigNext]_configVars PROVE SpendInv'
  OBVIOUS
<1>t. /\ stored \in Config /\ mirror \in Config
      /\ patch \in [Patches -> PatchRow] /\ upload \in [Uploads -> UploadRow]
  BY DEF SpendInv
<1>1. ASSUME NEW c \in Patches, Begin(c) PROVE SpendInv'
  <2>1. \A g : Changed(c, mirror) \in SUBSET Groups
    BY DEF Changed
  <2>2. patch' \in [Patches -> PatchRow]
    BY <1>1, <1>t, <2>1 DEF Begin, PatchRow
  <2> QED
    BY <1>1, <2>2 DEF Begin, SpendInv
<1>2. ASSUME NEW c \in Patches, Commit(c) PROVE SpendInv'
  <2>1. patch[c].snap \in Config
    BY <1>t DEF PatchRow
  <2>2. stored' \in Config
    BY <1>2, <1>t, <2>1, CandidateValues, SavedValues DEF Commit
  <2>3. patch' \in [Patches -> PatchRow]
    BY <1>2, <1>t DEF Commit, PatchRow
  <2> QED
    BY <1>2, <2>2, <2>3 DEF Commit, SpendInv
<1>3. ASSUME NEW c \in Patches, CommitFails(c) PROVE SpendInv'
  <2>1. patch' \in [Patches -> PatchRow]
    BY <1>3, <1>t DEF CommitFails, AfterFailure, PatchRow
  <2> QED
    BY <1>3, <2>1 DEF CommitFails, SpendInv
<1>4. ASSUME NEW c \in Patches, WriteMirror(c) PROVE SpendInv'
  <2>1. PICK g \in Groups :
          /\ mirror' = Mirrored(c, g)
          /\ patch' = [patch EXCEPT ![c].left = @ \ {g}, ![c].pc = IF patch[c].left = {g} THEN "done" ELSE @]
    BY <1>4, Zenon DEF WriteMirror
  <2>2. patch[c].snap \in Config /\ patch[c] \in PatchRow
    BY <1>t DEF PatchRow
  <2>3. mirror' \in Config
    BY <1>t, <2>1, <2>2, MirroredValues
  <2>4. patch' \in [Patches -> PatchRow]
    <3>1. \A d \in Patches : patch'[d] = IF d = c THEN [patch[c] EXCEPT !.left = @ \ {g}, !.pc = IF patch[c].left = {g} THEN "done" ELSE @] ELSE patch[d]
      BY SMTT(40), <1>t, <2>1
    <3>2. [patch[c] EXCEPT !.left = @ \ {g}, !.pc = IF patch[c].left = {g} THEN "done" ELSE @] \in PatchRow
      BY <2>2, Zenon DEF PatchRow
    <3>3. patch' = [d \in Patches |-> patch'[d]]
      BY <1>t, <2>1, Zenon
    <3> QED
      BY <1>t, <3>1, <3>2, <3>3, Zenon
  <2> QED
    BY <1>4, <2>3, <2>4 DEF WriteMirror, SpendInv
<1>5. CASE Restart
  <2>1. patch' \in [Patches -> PatchRow]
    BY <1>5, <1>t DEF Restart, PatchRow
  <2>2. upload' \in [Uploads -> UploadRow]
    BY <1>5, <1>t DEF Restart, UploadRow
  <2>3. restarts' \in 0 .. MaxRestarts
    BY <1>5, ConfigValues DEF Restart, SpendInv
  <2> QED
    BY <1>5, <1>t, <2>1, <2>2, <2>3 DEF Restart, SpendInv
<1>6. ASSUME NEW u \in Uploads, UploadReads(u) PROVE SpendInv'
  <2>1. mirror["cap"] \in ValuesOf("cap") /\ mirror["refill"] \in ValuesOf("refill")
    BY <1>t, BudgetFields DEF Config
  <2>2. upload' \in [Uploads -> UploadRow]
    BY <1>6, <1>t, <2>1 DEF UploadReads, UploadRow
  <2> QED
    BY <1>6, <2>2 DEF UploadReads, SpendInv
<1>7. CASE TickPasses
  <2>1. tick' \in 0 .. LastTick /\ bucket.at <= tick'
    BY <1>7, ConfigValues DEF TickPasses, SpendInv, BucketRow
  <2> QED
    BY <1>7, <2>1 DEF TickPasses, SpendInv
<1>8. CASE UNCHANGED configVars
  BY <1>8 DEF configVars, SpendInv
<1> QED
  BY <1>1, <1>2, <1>3, <1>4, <1>5, <1>6, <1>7, <1>8, DebitStep DEF ConfigNext

\* The types hold, and no user stores more than the largest bucket and the largest refill
\* allow, whatever the parameters change to between an upload's reading and its debit.
THEOREM SpendStaysBounded == ConfigSpec => [](ConfigTypeOK /\ SpendBounded)
<1>1. ConfigInit => SpendInv
  <2> SUFFICES ASSUME ConfigInit PROVE SpendInv
    OBVIOUS
  <2>1. Start \in Config
    BY ConfigValues, ValuesAreNat DEF Config
  <2>2. patch \in [Patches -> PatchRow] /\ upload \in [Uploads -> UploadRow]
    BY <2>1 DEF ConfigInit, PatchRow, UploadRow
  <2>3. bucket \in BucketRow /\ ~bucket.row /\ bucket.spent = 0 /\ bucket.at = 0
    BY ConfigValues DEF ConfigInit, BucketRow
  <2>4. tick = 0 /\ restarts = 0 /\ LastTick \in Nat /\ MaxRestarts \in Nat
    BY ConfigValues DEF ConfigInit
  <2>5. stored \in Config /\ mirror \in Config
    BY <2>1 DEF ConfigInit
  <2>6. tick \in 0 .. LastTick /\ restarts \in 0 .. MaxRestarts /\ bucket.at <= tick
    BY <2>3, <2>4
  <2> QED
    BY <2>2, <2>3, <2>5, <2>6 DEF SpendInv
<1>2. SpendInv => ConfigTypeOK
  <2> SUFFICES ASSUME SpendInv PROVE ConfigTypeOK
    OBVIOUS
  <2>1. DOMAIN stored = Fields /\ DOMAIN mirror = Fields
    BY DEF SpendInv, Config
  <2> QED
    BY <2>1 DEF SpendInv, ConfigTypeOK, PatchRow, UploadRow, BucketRow
<1>3. SpendInv => SpendBounded
  <2> SUFFICES ASSUME SpendInv, NEW cap \in ValuesOf("cap"), NEW refill \in ValuesOf("refill"),
                      IsTop(cap, "cap"), IsTop(refill, "refill")
               PROVE  bucket.spent * DayTicks <= cap * DayTicks + refill * tick
    BY DEF SpendBounded
  <2>1. /\ cap \in Nat /\ refill \in Nat /\ DayTicks \in Nat \ {0} /\ tick \in Nat
        /\ bucket.at \in Nat /\ bucket.at <= tick /\ bucket.spent \in Nat /\ bucket.avail \in Nat
    BY ValuesAreNat, BudgetFields, ConfigValues DEF SpendInv, BucketRow
  <2> DEFINE A == bucket.spent * DayTicks  B == bucket.avail * DayTicks  C == cap * DayTicks
             D == refill * bucket.at  E == refill * tick
  <2>2. A \in Nat /\ B \in Nat /\ C \in Nat /\ D \in Nat /\ E \in Nat
    BY <2>1, Products
  <2>3. (bucket.spent + bucket.avail) * DayTicks = A + B /\ D <= E
    <3>1. bucket.at * refill <= tick * refill /\ bucket.at * refill = D /\ tick * refill = E
      BY <2>1, Products
    <3> QED
      BY <2>1, <3>1, Products
  <2>4. CASE bucket.row
    <3>1. A + B <= C + D
      BY <2>1, <2>3, <2>4 DEF SpendInv
    <3> HIDE DEF A, B, C, D, E
    <3>2. A <= C + E
      BY <2>2, <2>3, <3>1
    <3> QED
      BY <3>2 DEF A, C, E
  <2>5. CASE ~bucket.row
    <3>1. A = 0
      BY <2>5, <2>1 DEF SpendInv
    <3> HIDE DEF A, B, C, D, E
    <3>2. A <= C + E
      BY <2>2, <3>1
    <3> QED
      BY <3>2 DEF A, C, E
  <2> QED
    BY <2>4, <2>5
<1> QED
  BY <1>1, <1>2, <1>3, SpendStep, PTL DEF ConfigSpec

\* The configuration is sound (ConfigSound): whatever requests, refused commits and restarts
\* interleave, the mirrors hold committed values, the loop's share of them an ordered
\* schedule, and no user overspends.
THEOREM ConfigStaysSound == ConfigSpec => []ConfigSound
<1>1. LoopScheduleOrdered /\ MirrorNotAhead /\ (ConfigTypeOK /\ SpendBounded) => ConfigSound
  BY DEF ConfigSound
<1> QED
  BY <1>1, ScheduleStaysOrdered, MirrorsNeverAhead, SpendStaysBounded, PTL


-----------------------------------------------------------------------------
(* The rate limiters.                                                      *)

WindowState == [present : BOOLEAN, start : 0..MaxTime, count : Nat, bytes : Nat]

\* What a limiter has let through (f) grows, stands still from the clock w on, and stays
\* within two caps c over a window.
Bounded(f, c, w) ==
  /\ f \in [Seconds -> Nat]
  /\ \A a, b \in Seconds : a <= b => f[a] <= f[b]
  /\ \A a \in Seconds : a >= w => f[a] = f[MaxTime]
  /\ \A a, b \in Seconds : b - a <= Window => f[b] - f[a] <= 2 * c

\* The entry counts what was let through since its start, at most a cap; the window's
\* length before its start saw at most another cap; nothing passes after its end.
Counted(e, f, c) ==
  /\ e.count = f[MaxTime] - f[e.start - 1] /\ e.count <= c
  /\ \A a \in Seconds : a >= e.start - Window /\ a < e.start => f[e.start - 1] - f[a] <= c
  /\ \A a \in Seconds : a >= e.start + Window - 1 => f[a] = f[MaxTime]

\* Without an entry nothing was let through in this second, and at most a cap in the
\* window's length up to it.
Quiet(f, c, w) ==
  /\ f[w - 1] = f[MaxTime]
  /\ \A a \in Seconds : a >= w - Window => f[MaxTime] - f[a] <= c

Sound(e, f, c, w) ==
  /\ e \in WindowState /\ e.start <= w /\ e.count <= c
  /\ Bounded(f, c, w)
  /\ IF e.present THEN Counted(e, f, c) ELSE Quiet(f, c, w)

LimitInv ==
  /\ route \in Routes /\ now \in 0..MaxTime /\ flying \in 0..MaxFlying
  /\ entry \in [Limiters -> WindowState] /\ served \in [Limiters -> [Seconds -> Nat]]
  /\ \A l \in Limiters : Sound(entry[l], served[l], CapOf(l), now)
  /\ OnlyInFlightOverrun

-----------------------------------------------------------------------------
(* One limiter.                                                            *)

\* An expired window leaves at most a cap in the window's length up to now.
LEMMA ExpiredIsQuiet ==
  ASSUME NEW w \in 0..MaxTime, NEW c \in Nat, NEW f, NEW e,
         Sound(e, f, c, w), e.present => w - e.start >= Window
  PROVE  Quiet(f, c, w)
<1> USE LimitConfig
<1>1. CASE ~e.present
  BY <1>1 DEF Sound
<1>2. CASE e.present
  <2>1. /\ Bounded(f, c, w) /\ Counted(e, f, c) /\ e.start \in 0..MaxTime /\ e.start + Window <= w /\ e.count \in Nat
    BY <1>2 DEF Sound, WindowState
  <2>2. w - 1 \in Seconds /\ e.start - 1 \in Seconds /\ MaxTime \in Seconds
    BY <2>1 DEF Seconds
  <2>3. f[w - 1] = f[MaxTime]
    BY <2>1, <2>2 DEF Counted
  <2>4. ASSUME NEW a \in Seconds, a >= w - Window PROVE f[MaxTime] - f[a] <= c
    <3>1. e.start - 1 <= a
      BY <2>1, <2>4 DEF Seconds
    <3>2. f[e.start - 1] <= f[a] /\ f[e.start - 1] \in Nat /\ f[a] \in Nat /\ f[MaxTime] \in Nat
      BY <2>1, <2>2, <3>1 DEF Bounded
    <3> QED
      BY <2>1, <3>2 DEF Counted
  <2> QED
    BY <2>3, <2>4 DEF Quiet
<1> QED
  BY <1>1, <1>2

\* The entry a call finds is sound, and runs now.
LEMMA CurrentSound ==
  ASSUME now \in 0..MaxTime, NEW c \in Nat, NEW f, NEW e, Sound(e, f, c, now)
  PROVE  /\ Sound(Current(e), f, c, now) /\ Current(e) \in WindowState
         /\ Current(e).present /\ now - Current(e).start < Window
         /\ Current(e).bytes = 0 \/ Current(e).bytes = e.bytes
<1> USE LimitConfig
<1>1. CASE ~e.present \/ Expired(e)
  <2>1. Quiet(f, c, now) /\ Bounded(f, c, now)
    BY <1>1, ExpiredIsQuiet DEF Sound, Expired
  <2> DEFINE d == [present |-> TRUE, start |-> now, count |-> 0, bytes |-> 0]
  <2>2. Current(e) = d /\ d \in WindowState /\ d.present /\ d.start = now /\ d.count = 0 /\ d.bytes = 0
    BY <1>1 DEF Current, WindowState
  <2> HIDE DEF d
  <2>3. now - 1 \in Seconds /\ MaxTime \in Seconds /\ f[MaxTime] \in Nat
    BY <2>1 DEF Seconds, Bounded
  <2>4. ASSUME NEW a \in Seconds, a >= now + Window - 1 PROVE f[a] = f[MaxTime]
    BY <2>1, <2>4 DEF Bounded, Seconds
  <2>5. Counted(d, f, c)
    BY <2>1, <2>2, <2>3, <2>4 DEF Quiet, Counted
  <2> QED
    BY <2>1, <2>2, <2>5 DEF Sound
<1>2. CASE ~(~e.present \/ Expired(e))
  <2>1. Current(e) = e /\ e.present
    BY <1>2 DEF Current, Sound, WindowState
  <2>2. e.start \in 0..MaxTime
    BY DEF Sound, WindowState
  <2> QED
    BY <1>2, <2>1, <2>2 DEF Expired, Sound
<1> QED
  BY <1>1, <1>2

\* Letting n more through a window that runs and has room for them.
LEMMA ChargeSound ==
  ASSUME now \in 0..MaxTime, NEW c \in Nat, NEW f, NEW e, NEW n \in Nat,
         Sound(e, f, c, now), e.present, now - e.start < Window, e.count + n <= c
  PROVE  /\ Sound([e EXCEPT !.count = @ + n], Plus(f, n), c, now)
         /\ Plus(f, n) \in [Seconds -> Nat]
<1> USE LimitConfig
<1> DEFINE g == Plus(f, n)
           d == [e EXCEPT !.count = @ + n]
<1>1. e \in WindowState /\ e.start \in 0..now /\ e.count \in Nat /\ Bounded(f, c, now) /\ Counted(e, f, c)
  BY DEF Sound, WindowState
<1>2. d \in WindowState /\ d.present /\ d.start = e.start /\ d.count = e.count + n
  BY <1>1 DEF WindowState
<1>3. g \in [Seconds -> Nat] /\ \A a \in Seconds : f[a] \in Nat /\ g[a] = IF a >= now THEN f[a] + n ELSE f[a]
  BY <1>1 DEF Plus, Bounded
<1>4. /\ \A a, b \in Seconds : a <= b => f[a] <= f[b]
      /\ \A a \in Seconds : a >= now => f[a] = f[MaxTime]
      /\ \A a, b \in Seconds : b - a <= Window => f[b] - f[a] <= 2 * c
  BY <1>1 DEF Bounded
<1>5. MaxTime \in Seconds /\ e.start - 1 \in Seconds /\ Seconds \subseteq Int /\ MaxTime >= now
  BY <1>1 DEF Seconds
<1> HIDE DEF g, d
<1>6. g[MaxTime] = f[MaxTime] + n /\ g[e.start - 1] = f[e.start - 1]
  BY <1>1, <1>3, <1>5
<1>7. Bounded(g, c, now)
  <2>1. ASSUME NEW a \in Seconds, NEW b \in Seconds, a <= b PROVE g[a] <= g[b]
    BY <1>3, <1>4, <1>5, <2>1
  <2>2. ASSUME NEW a \in Seconds, a >= now PROVE g[a] = g[MaxTime]
    BY <1>3, <1>4, <1>6, <2>2
  <2>3. ASSUME NEW a \in Seconds, NEW b \in Seconds, b - a <= Window PROVE g[b] - g[a] <= 2 * c
    <3>0. a \in Int /\ b \in Int /\ f[a] \in Nat /\ f[b] \in Nat /\ f[b] - f[a] <= 2 * c
      BY <1>3, <1>4, <1>5, <2>3
    <3>1. CASE b < now \/ a >= now
      BY <3>0, <3>1, <1>3, <1>4
    <3>2. CASE b >= now /\ a < now
      <4>1. f[b] = f[MaxTime] /\ g[b] = f[MaxTime] + n /\ g[a] = f[a]
        BY <3>0, <3>2, <1>3, <1>4
      <4>2. f[MaxTime] \in Nat /\ f[e.start - 1] \in Nat /\ e.count = f[MaxTime] - f[e.start - 1]
        BY <1>1, <1>3, <1>5 DEF Counted
      <4>3. CASE a >= e.start
        <5>1. f[e.start - 1] <= f[a]
          BY <1>1, <1>4, <1>5, <4>3, <3>0
        <5> QED
          BY <3>0, <4>1, <4>2, <5>1, <1>1
      <4>4. CASE a < e.start
        <5>1. a >= e.start - Window
          BY <3>0, <3>2, <2>3, <1>1
        <5>2. f[e.start - 1] - f[a] <= c
          BY <5>1, <4>4, <1>1 DEF Counted
        <5> QED
          BY <3>0, <4>1, <4>2, <5>2, <1>1
      <4> QED
        BY <4>3, <4>4, <3>0, <1>1
    <3> QED
      BY <3>0, <3>1, <3>2
  <2> QED
    BY <1>3, <2>1, <2>2, <2>3 DEF Bounded
<1>8. Counted(d, g, c)
  <2>1. d.count = g[MaxTime] - g[d.start - 1] /\ d.count <= c
    <3>1. f[MaxTime] \in Nat /\ f[e.start - 1] \in Nat /\ e.count = f[MaxTime] - f[e.start - 1]
      BY <1>1, <1>3, <1>5 DEF Counted
    <3> QED
      BY <1>2, <1>6, <3>1
  <2>2. ASSUME NEW a \in Seconds, a >= e.start - Window, a < e.start PROVE g[e.start - 1] - g[a] <= c
    <3>1. g[a] = f[a]
      BY <1>1, <1>3, <1>5, <2>2
    <3> QED
      BY <1>1, <1>6, <2>2, <3>1 DEF Counted
  <2>3. ASSUME NEW a \in Seconds, a >= e.start + Window - 1 PROVE g[a] = g[MaxTime]
    <3>1. a >= now
      BY <1>1, <1>5, <2>3
    <3> QED
      BY <1>7, <3>1 DEF Bounded
  <2> QED
    BY <1>2, <2>1, <2>2, <2>3 DEF Counted
<1> QED
  BY <1>1, <1>2, <1>3, <1>7, <1>8 DEF Sound, g, d

\* The sweep drops what has expired.
LEMMA SweepSound ==
  ASSUME now \in 0..MaxTime, NEW c \in Nat, NEW f, NEW e, Sound(e, f, c, now), Stale(e)
  PROVE  Sound(Absent, f, c, now) /\ Absent \in WindowState
<1>1. Quiet(f, c, now)
  BY ExpiredIsQuiet DEF Stale
<1>2. Absent \in WindowState /\ ~Absent.present /\ Absent.start = 0 /\ Absent.count = 0
  BY LimitConfig DEF Absent, WindowState
<1> QED
  BY <1>1, <1>2 DEF Sound

\* A second passes.
LEMMA TickSound ==
  ASSUME NEW w \in 0..MaxTime, w < MaxTime, NEW c \in Nat, NEW f, NEW e, Sound(e, f, c, w)
  PROVE  Sound(e, f, c, w + 1)
<1> USE LimitConfig
<1>1. Bounded(f, c, w + 1)
  BY DEF Sound, Bounded, Seconds
<1>2. Quiet(f, c, w) => Quiet(f, c, w + 1)
  <2>1. w \in Seconds /\ f[w] = f[MaxTime]
    BY DEF Sound, Bounded, Seconds
  <2> QED
    BY <2>1 DEF Quiet, Seconds
<1>3. e.start <= w + 1
  BY DEF Sound, WindowState
<1> QED
  BY <1>1, <1>2, <1>3 DEF Sound

-----------------------------------------------------------------------------
(* The byte budget.                                                        *)

\* Fewer responses weigh less.
LEMMA Weights == \A i, j, m \in Nat : i <= j => i * m <= j * m /\ i * m \in Nat /\ j * m \in Nat /\ (i + 1) * m = i * m + m
  OBVIOUS

\* The bound holds after a step that leaves `bytes' in the entry and `n' requests in the
\* air, if the bytes were reset or not raised and the requests not more.
LEMMA OverrunKept ==
  ASSUME LimitInv, NEW b \in Nat, NEW n \in Nat, n <= flying, b = 0 \/ b = entry["backfill"].bytes,
         NEW m \in Sizes, \A s \in Sizes : s <= m
  PROVE  b + n * m <= ByteCap - 1 + MaxFlying * m
<1>1. m \in Nat /\ MaxFlying \in Nat /\ ByteCap \in Nat \ {0} /\ flying \in 0..MaxFlying
  BY LimitConfig DEF LimitInv
<1>2. entry["backfill"].bytes + flying * m <= ByteCap - 1 + MaxFlying * m
  BY DEF LimitInv, OnlyInFlightOverrun
<1>3. entry["backfill"].bytes \in Nat
  BY DEF LimitInv, Limiters, WindowState
<1>4. n * m <= flying * m /\ flying * m <= MaxFlying * m /\ n * m \in Nat /\ flying * m \in Nat /\ MaxFlying * m \in Nat
  BY <1>1, Weights
<1> DEFINE x == n * m  y == flying * m  z == MaxFlying * m
<1> HIDE DEF x, y, z
<1> QED
  BY <1>1, <1>2, <1>3, <1>4 DEF x, y, z

-----------------------------------------------------------------------------
(* The steps.                                                              *)

LEMMA CapType == \A l \in Limiters : CapOf(l) \in Nat
  BY LimitConfig DEF CapOf

\* One limiter is asked for n units.
LEMMA AdmitSound ==
  ASSUME LimitInv, NEW l \in Limiters, NEW n \in Nat, NEW more \in BOOLEAN, Admit(l, n, more)
  PROVE  /\ entry' \in [Limiters -> WindowState] /\ served' \in [Limiters -> [Seconds -> Nat]]
         /\ \A k \in Limiters : Sound(entry'[k], served'[k], CapOf(k), now)
         /\ \A k \in Limiters : entry'[k].bytes \in {0, entry[k].bytes}
<1> DEFINE e == Current(entry[l])
           d == [e EXCEPT !.count = @ + n]
           ok == Fits(l, e, n) /\ more
<1>1. /\ entry \in [Limiters -> WindowState] /\ served \in [Limiters -> [Seconds -> Nat]]
      /\ \A k \in Limiters : Sound(entry[k], served[k], CapOf(k), now)
      /\ now \in 0..MaxTime /\ CapOf(l) \in Nat
  BY CapType DEF LimitInv
<1>2. /\ Sound(e, served[l], CapOf(l), now) /\ e \in WindowState
      /\ e.present /\ now - e.start < Window /\ e.bytes \in {0, entry[l].bytes}
  BY ZenonT(60), <1>1, CurrentSound
<1>3. /\ entry' = [entry EXCEPT ![l] = IF ok THEN d ELSE e]
      /\ served' = IF ok THEN [served EXCEPT ![l] = Plus(@, n)] ELSE served
  BY DEF Admit
<1> HIDE DEF e
<1>4. d \in WindowState /\ d.bytes = e.bytes
  BY <1>2 DEF WindowState
<1>5. CASE ok
  <2>1. e.count + n <= CapOf(l)
    BY <1>5 DEF Fits
  <2>2. Sound(d, Plus(served[l], n), CapOf(l), now) /\ Plus(served[l], n) \in [Seconds -> Nat]
    BY <1>1, <1>2, <2>1, ChargeSound, Zenon
  <2> DEFINE g == Plus(served[l], n)
  <2>3. entry' = [entry EXCEPT ![l] = d] /\ served' = [served EXCEPT ![l] = g]
    BY <1>1, <1>3, <1>5
  <2> HIDE DEF d, g
  <2>4. \A k \in Limiters : entry'[k] = (IF k = l THEN d ELSE entry[k]) /\ served'[k] = (IF k = l THEN g ELSE served[k])
    BY <1>1, <2>3
  <2>5. entry' \in [Limiters -> WindowState] /\ served' \in [Limiters -> [Seconds -> Nat]]
    BY <1>1, <1>4, <2>2, <2>3 DEF g
  <2>6. ASSUME NEW k \in Limiters
        PROVE  Sound(entry'[k], served'[k], CapOf(k), now) /\ entry'[k].bytes \in {0, entry[k].bytes}
    <3>1. CASE k = l
      BY <3>1, <2>2, <2>4, <1>2, <1>4 DEF g
    <3>2. CASE k # l
      BY <3>2, <2>4, <1>1
    <3> QED
      BY <3>1, <3>2
  <2> QED
    BY <2>5, <2>6
<1>6. CASE ~ok
  <2>1. entry' = [entry EXCEPT ![l] = e] /\ served' = served
    BY <1>3, <1>6, Zenon
  <2>2. \A k \in Limiters : entry'[k] = IF k = l THEN e ELSE entry[k]
    BY <1>1, <2>1
  <2> QED
    BY <1>1, <1>2, <2>1, <2>2
<1> QED
  BY <1>5, <1>6

\* The limiters that only count requests or objects.
LEMMA CountStep ==
  ASSUME LimitInv, NEW l \in Limiters, NEW n \in Nat, Admit(l, n, TRUE), UNCHANGED <<route, now, flying>>
  PROVE  LimitInv'
<1>1. /\ entry' \in [Limiters -> WindowState] /\ served' \in [Limiters -> [Seconds -> Nat]]
      /\ \A k \in Limiters : Sound(entry'[k], served'[k], CapOf(k), now)
      /\ \A k \in Limiters : entry'[k].bytes \in {0, entry[k].bytes}
  BY AdmitSound, Zenon
<1>2. "backfill" \in Limiters
  BY DEF Limiters
<1>3. entry'["backfill"].bytes \in Nat /\ flying \in Nat
  BY <1>1, <1>2, LimitConfig DEF WindowState, LimitInv
<1>4. OnlyInFlightOverrun'
  <2> SUFFICES ASSUME NEW m \in Sizes, \A s \in Sizes : s <= m
               PROVE  entry'["backfill"].bytes + flying' * m <= ByteCap - 1 + MaxFlying * m
    BY DEF OnlyInFlightOverrun
  <2> QED
    BY <1>1, <1>2, <1>3, OverrunKept
<1> QED
  BY <1>1, <1>4 DEF LimitInv, CapOf

\* A backfill request is admitted while there are bytes left.
LEMMA BackfillStep == LimitInv /\ BackfillAdmit => LimitInv'
<1> SUFFICES ASSUME LimitInv, BackfillAdmit PROVE LimitInv'
  OBVIOUS
<1> DEFINE e == Current(entry["backfill"])
<1>0. "backfill" \in Limiters /\ flying \in 0..MaxFlying /\ MaxFlying \in Nat /\ ByteCap \in Nat \ {0}
  BY LimitConfig DEF Limiters, LimitInv
<1>u. /\ UNCHANGED <<route, now>> /\ flying < MaxFlying /\ Admit("backfill", 1, BytesLeft(e))
      /\ flying' = IF Fits("backfill", e, 1) /\ BytesLeft(e) THEN flying + 1 ELSE flying
  BY DEF BackfillAdmit
<1>1. /\ entry' \in [Limiters -> WindowState] /\ served' \in [Limiters -> [Seconds -> Nat]]
      /\ \A k \in Limiters : Sound(entry'[k], served'[k], CapOf(k), now)
      /\ \A k \in Limiters : entry'[k].bytes \in {0, entry[k].bytes}
  <2>1. BytesLeft(e) \in BOOLEAN
    BY DEF BytesLeft
  <2> QED
    BY <1>0, <1>u, <2>1, AdmitSound
<1>2. entry'["backfill"].bytes \in Nat
  BY <1>0, <1>1 DEF WindowState
<1>3. OnlyInFlightOverrun'
  <2> SUFFICES ASSUME NEW m \in Sizes, \A s \in Sizes : s <= m
               PROVE  entry'["backfill"].bytes + flying' * m <= ByteCap - 1 + MaxFlying * m
    BY DEF OnlyInFlightOverrun
  <2>m. m \in Nat
    BY LimitConfig
  <2>1. CASE Fits("backfill", e, 1) /\ BytesLeft(e)
    <3>1. e \in WindowState
      BY <1>0, CapType, CurrentSound, Zenon DEF LimitInv
    <3> HIDE DEF e
    <3>2. entry'["backfill"] = [e EXCEPT !.count = @ + 1]
      BY <2>1, <1>0, <1>u DEF Admit, LimitInv, e
    <3>3. entry'["backfill"].bytes = e.bytes /\ e.bytes < ByteCap /\ e.bytes \in Nat
      BY <2>1, <3>1, <3>2 DEF WindowState, BytesLeft
    <3>4. (flying + 1) * m <= MaxFlying * m /\ (flying + 1) * m \in Nat /\ MaxFlying * m \in Nat
      BY <1>0, <1>u, <2>m, Weights
    <3> DEFINE x == (flying + 1) * m  z == MaxFlying * m
    <3>5. flying' * m = x
      BY <1>u, <2>1
    <3> HIDE DEF x, z
    <3> QED
      BY <1>0, <3>3, <3>4, <3>5 DEF x, z
  <2>2. CASE ~(Fits("backfill", e, 1) /\ BytesLeft(e))
    <3>1. flying' = flying /\ flying \in Nat /\ flying <= flying
      BY <1>0, <1>u, <2>2
    <3>2. entry'["backfill"].bytes = 0 \/ entry'["backfill"].bytes = entry["backfill"].bytes
      BY <1>0, <1>1
    <3> QED
      BY <1>2, <3>1, <3>2, OverrunKept
  <2> QED
    BY <2>1, <2>2
<1>4. flying' \in 0..MaxFlying
  BY <1>0, <1>u
<1> QED
  BY <1>1, <1>3, <1>4, <1>u DEF LimitInv, CapOf

\* The response of an admitted request is charged.
LEMMA ChargeStep == LimitInv /\ BackfillCharge => LimitInv'
<1> SUFFICES ASSUME LimitInv, BackfillCharge PROVE LimitInv'
  OBVIOUS
<1> DEFINE e == Current(entry["backfill"])
<1>0. /\ "backfill" \in Limiters /\ flying \in 0..MaxFlying /\ MaxFlying \in Nat /\ ByteCap \in Nat \ {0}
      /\ entry \in [Limiters -> WindowState]
  BY LimitConfig DEF Limiters, LimitInv
<1>1. PICK b \in Sizes : entry' = [entry EXCEPT !["backfill"] = [e EXCEPT !.bytes = @ + b]]
  BY Zenon DEF BackfillCharge
<1>2. UNCHANGED <<route, now, served>> /\ flying > 0 /\ flying' = flying - 1 /\ b \in Nat
  BY LimitConfig DEF BackfillCharge
<1>3. /\ Sound(e, served["backfill"], CapOf("backfill"), now) /\ e \in WindowState
      /\ e.bytes = 0 \/ e.bytes = entry["backfill"].bytes
  BY ZenonT(60), <1>0, CapType, CurrentSound DEF LimitInv
<1> DEFINE d == [e EXCEPT !.bytes = @ + b]
<1> HIDE DEF e
<1>4. d \in WindowState /\ d.present = e.present /\ d.start = e.start /\ d.count = e.count /\ d.bytes = e.bytes + b
  BY <1>2, <1>3 DEF WindowState
<1>5. Sound(d, served["backfill"], CapOf("backfill"), now)
  BY <1>3, <1>4 DEF Sound, Counted
<1> HIDE DEF d
<1>6. entry' \in [Limiters -> WindowState] /\ \A k \in Limiters : entry'[k] = IF k = "backfill" THEN d ELSE entry[k]
  BY <1>0, <1>1, <1>4 DEF d
<1>7. OnlyInFlightOverrun'
  <2> SUFFICES ASSUME NEW m \in Sizes, \A s \in Sizes : s <= m
               PROVE  d.bytes + (flying - 1) * m <= ByteCap - 1 + MaxFlying * m
    BY <1>0, <1>2, <1>6 DEF OnlyInFlightOverrun
  <2>1. m \in Nat /\ b <= m
    BY LimitConfig
  <2>2. e.bytes + flying * m <= ByteCap - 1 + MaxFlying * m
    BY <1>0, <1>3, OverrunKept DEF WindowState
  <2>3. flying - 1 \in Nat /\ (flying - 1) * m + m = ((flying - 1) + 1) * m /\ (flying - 1) + 1 = flying
    BY <1>0, <1>2, <2>1, Weights
  <2>4. (flying - 1) * m \in Nat /\ flying * m \in Nat /\ MaxFlying * m \in Nat /\ (flying - 1) * m + m = flying * m
    BY <1>0, <2>1, <2>3, Weights
  <2>5. e.bytes \in Nat
    BY <1>3 DEF WindowState
  <2> DEFINE x == (flying - 1) * m  y == flying * m  z == MaxFlying * m
  <2> HIDE DEF x, y, z
  <2> QED
    BY <1>0, <1>2, <1>4, <2>1, <2>2, <2>4, <2>5 DEF x, y, z
<1>8. \A k \in Limiters : Sound(entry'[k], served'[k], CapOf(k), now')
  BY <1>2, <1>5, <1>6 DEF LimitInv
<1>9. flying' \in 0..MaxFlying
  BY <1>0, <1>2
<1> QED
  BY <1>2, <1>6, <1>7, <1>8, <1>9 DEF LimitInv, CapOf

\* The bytes are left alone or forgotten, and no request is added.
LEMMA OverrunStep ==
  ASSUME LimitInv, entry' \in [Limiters -> WindowState], flying' \in Nat, flying' <= flying,
         entry'["backfill"].bytes \in {0, entry["backfill"].bytes}
  PROVE  OnlyInFlightOverrun'
<1>1. entry'["backfill"].bytes \in Nat
  BY DEF Limiters, WindowState
<1> SUFFICES ASSUME NEW m \in Sizes, \A s \in Sizes : s <= m
             PROVE  entry'["backfill"].bytes + flying' * m <= ByteCap - 1 + MaxFlying * m
  BY DEF OnlyInFlightOverrun
<1> QED
  BY <1>1, OverrunKept

\* The address is asked, then the key.
LEMMA ChallengeStep == LimitInv /\ ChallengeAdmit => LimitInv'
<1> SUFFICES ASSUME LimitInv, ChallengeAdmit PROVE LimitInv'
  OBVIOUS
<1> DEFINE a == Current(entry["ip"])
           k == Current(entry["key"])
           a1 == [a EXCEPT !.count = @ + 1]
           k1 == [k EXCEPT !.count = @ + 1]
           fa == Plus(served["ip"], 1)
           fk == Plus(served["key"], 1)
<1>0. /\ {"ip", "key", "backfill"} \subseteq Limiters /\ flying \in Nat /\ now \in 0..MaxTime
      /\ CapOf("ip") \in Nat /\ CapOf("key") \in Nat
      /\ entry \in [Limiters -> WindowState] /\ served \in [Limiters -> [Seconds -> Nat]]
      /\ \A l \in Limiters : Sound(entry[l], served[l], CapOf(l), now)
  BY LimitConfig, CapType DEF Limiters, LimitInv
<1>u. UNCHANGED <<route, now, flying>>
  BY DEF ChallengeAdmit
<1>a. /\ Sound(a, served["ip"], CapOf("ip"), now) /\ a \in WindowState /\ a.present /\ now - a.start < Window
  BY <1>0, CurrentSound, Zenon
<1>k. /\ Sound(k, served["key"], CapOf("key"), now) /\ k \in WindowState /\ k.present /\ now - k.start < Window
  BY <1>0, CurrentSound, Zenon
<1>1. \/ ~Fits("ip", a, 1) /\ entry' = [entry EXCEPT !["ip"] = a] /\ served' = served
      \/ /\ Fits("ip", a, 1)
         /\ entry' = [entry EXCEPT !["ip"] = a1, !["key"] = k] /\ served' = [served EXCEPT !["ip"] = fa]
      \/ /\ Fits("ip", a, 1) /\ Fits("key", k, 1)
         /\ entry' = [entry EXCEPT !["ip"] = a1, !["key"] = k1]
         /\ served' = [served EXCEPT !["ip"] = fa, !["key"] = fk]
  BY <1>0 DEF ChallengeAdmit
<1> HIDE DEF a, k
<1>2. Fits("ip", a, 1) => Sound(a1, fa, CapOf("ip"), now) /\ fa \in [Seconds -> Nat]
  BY <1>0, <1>a, ChargeSound, Zenon DEF Fits
<1>3. Fits("key", k, 1) => Sound(k1, fk, CapOf("key"), now) /\ fk \in [Seconds -> Nat]
  BY <1>0, <1>k, ChargeSound, Zenon DEF Fits
<1>4. a1 \in WindowState /\ k1 \in WindowState
  BY <1>a, <1>k DEF WindowState
<1> HIDE DEF a1, k1, fa, fk
<1>5. PICK ea \in WindowState, ek \in WindowState, ga \in [Seconds -> Nat], gk \in [Seconds -> Nat] :
        /\ entry' = [entry EXCEPT !["ip"] = ea, !["key"] = ek]
        /\ served' = [served EXCEPT !["ip"] = ga, !["key"] = gk]
        /\ Sound(ea, ga, CapOf("ip"), now) /\ Sound(ek, gk, CapOf("key"), now)
  <2>1. CASE ~Fits("ip", a, 1) /\ entry' = [entry EXCEPT !["ip"] = a] /\ served' = served
    <3>1. /\ entry' = [entry EXCEPT !["ip"] = a, !["key"] = entry["key"]]
          /\ served' = [served EXCEPT !["ip"] = served["ip"], !["key"] = served["key"]]
      BY <2>1, <1>0, Zenon
    <3>2. entry["key"] \in WindowState /\ served["ip"] \in [Seconds -> Nat] /\ served["key"] \in [Seconds -> Nat]
      BY <1>0
    <3> QED
      BY <3>1, <3>2, <1>0, <1>a, Zenon
  <2>2. CASE /\ Fits("ip", a, 1)
             /\ entry' = [entry EXCEPT !["ip"] = a1, !["key"] = k] /\ served' = [served EXCEPT !["ip"] = fa]
    <3>1. served' = [served EXCEPT !["ip"] = fa, !["key"] = served["key"]]
      BY <2>2, <1>0, Zenon
    <3>2. served["key"] \in [Seconds -> Nat]
      BY <1>0
    <3> QED
      BY <2>2, <3>1, <3>2, <1>2, <1>4, <1>k, Zenon
  <2>3. CASE /\ Fits("ip", a, 1) /\ Fits("key", k, 1)
             /\ entry' = [entry EXCEPT !["ip"] = a1, !["key"] = k1]
             /\ served' = [served EXCEPT !["ip"] = fa, !["key"] = fk]
    BY <2>3, <1>2, <1>3, <1>4, Zenon
  <2> QED
    BY <1>1, <2>1, <2>2, <2>3
<1>6. entry' \in [Limiters -> WindowState] /\ served' \in [Limiters -> [Seconds -> Nat]]
  BY <1>0, <1>5, Zenon
<1>7. /\ \A l \in Limiters \ {"ip", "key"} : entry'[l] = entry[l] /\ served'[l] = served[l]
      /\ entry'["ip"] = ea /\ served'["ip"] = ga /\ entry'["key"] = ek /\ served'["key"] = gk
  BY <1>0, <1>5
<1>8. \A l \in Limiters : Sound(entry'[l], served'[l], CapOf(l), now)
  BY <1>0, <1>5, <1>7
<1>9. OnlyInFlightOverrun'
  <2>1. entry'["backfill"] = entry["backfill"]
    BY <1>0, <1>7
  <2> QED
    BY <1>0, <1>u, <1>6, <2>1, OverrunStep
<1> QED
  BY <1>u, <1>6, <1>8, <1>9 DEF LimitInv, CapOf

\* The sweep, a failed request, and the clock.
LEMMA OtherSteps == LimitInv /\ (Cleanup \/ BackfillError \/ Tick) => LimitInv'
<1> SUFFICES ASSUME LimitInv, Cleanup \/ BackfillError \/ Tick PROVE LimitInv'
  OBVIOUS
<1>0. /\ "backfill" \in Limiters /\ flying \in 0..MaxFlying /\ now \in 0..MaxTime
      /\ {MaxFlying, MaxTime} \subseteq Nat /\ \A l \in Limiters : CapOf(l) \in Nat
      /\ entry \in [Limiters -> WindowState] /\ served \in [Limiters -> [Seconds -> Nat]]
      /\ \A l \in Limiters : Sound(entry[l], served[l], CapOf(l), now)
  BY LimitConfig, CapType DEF Limiters, LimitInv
<1>1. CASE Cleanup
  <2>1. /\ UNCHANGED <<route, now, flying, served>>
        /\ \A l \in Limiters : entry'[l] = IF Stale(entry[l]) THEN Absent ELSE entry[l]
        /\ entry' = [l \in Limiters |-> entry'[l]]
    BY <1>1 DEF Cleanup
  <2>2. ASSUME NEW l \in Limiters
        PROVE  /\ entry'[l] \in WindowState /\ Sound(entry'[l], served[l], CapOf(l), now)
               /\ entry'[l].bytes \in {0, entry[l].bytes}
    <3>1. CASE Stale(entry[l])
      <4>1. entry'[l] = Absent /\ Absent.bytes = 0
        BY <2>1, <3>1 DEF Absent
      <4> QED
        BY <1>0, <3>1, <4>1, SweepSound
    <3>2. CASE ~Stale(entry[l])
      BY <1>0, <2>1, <3>2
    <3> QED
      BY <3>1, <3>2
  <2>3. entry' \in [Limiters -> WindowState]
    BY <2>1, <2>2
  <2>4. OnlyInFlightOverrun'
    BY <1>0, <2>1, <2>2, <2>3, OverrunStep
  <2> QED
    BY <2>1, <2>2, <2>3, <2>4 DEF LimitInv, CapOf
<1>2. CASE BackfillError
  <2>1. UNCHANGED <<route, now, entry, served>> /\ flying' = flying - 1 /\ flying > 0
    BY <1>2 DEF BackfillError
  <2>2. flying' \in 0..MaxFlying /\ flying' \in Nat /\ flying' <= flying
    BY <1>0, <2>1
  <2>3. OnlyInFlightOverrun'
    BY <1>0, <2>1, <2>2, OverrunStep
  <2> QED
    BY <2>1, <2>2, <2>3 DEF LimitInv, CapOf
<1>3. CASE Tick
  <2>1. UNCHANGED <<route, entry, flying, served>> /\ now' = now + 1 /\ now < MaxTime
    BY <1>3 DEF Tick
  <2>2. now' \in 0..MaxTime /\ \A l \in Limiters : Sound(entry[l], served[l], CapOf(l), now + 1)
    BY <1>0, <2>1, TickSound
  <2>3. OnlyInFlightOverrun'
    BY <2>1 DEF LimitInv, OnlyInFlightOverrun
  <2> QED
    BY <2>1, <2>2, <2>3 DEF LimitInv, CapOf
<1> QED
  BY <1>1, <1>2, <1>3

\* The limits hold (LimitsHold), for any caps, window, sizes and number of requests in
\* flight, wherever the windows roll and whenever the sweep runs.
THEOREM LimitsAlwaysHold == Spec => []LimitsHold
<1>1. Init => LimitInv
  <2> SUFFICES ASSUME Init PROVE LimitInv
    OBVIOUS
  <2>0. Window \in Nat \ {0} /\ MaxFlying \in Nat /\ MaxTime \in Nat /\ Sizes \subseteq Nat
    BY LimitConfig
  <2>1. Absent \in WindowState /\ ~Absent.present /\ Absent.start = 0 /\ Absent.count = 0 /\ Absent.bytes = 0
    BY <2>0 DEF Absent, WindowState
  <2>2. now = 0 /\ flying = 0 /\ route \in Routes /\ entry = [l \in Limiters |-> Absent]
        /\ served = [l \in Limiters |-> [t \in Seconds |-> 0]]
    BY DEF Init
  <2>3. \A c \in Nat : Sound(Absent, [t \in Seconds |-> 0], c, 0)
    BY <2>0, <2>1 DEF Sound, Bounded, Quiet, Seconds
  <2>4. \A l \in Limiters : Sound(entry[l], served[l], CapOf(l), now)
    BY <2>2, <2>3, CapType
  <2>5. OnlyInFlightOverrun
    <3> SUFFICES ASSUME NEW m \in Sizes PROVE Absent.bytes + 0 * m <= ByteCap - 1 + MaxFlying * m
      BY <2>2 DEF OnlyInFlightOverrun, Limiters
    <3>1. m \in Nat /\ MaxFlying * m \in Nat /\ 0 * m = 0 /\ ByteCap \in Nat \ {0}
      BY <2>0, LimitConfig
    <3> DEFINE z == MaxFlying * m
    <3> HIDE DEF z
    <3> QED
      BY <2>1, <3>1 DEF z
  <2> QED
    BY <2>0, <2>1, <2>2, <2>4, <2>5 DEF LimitInv
<1>2. LimitInv /\ [Next]_vars => LimitInv'
  <2> SUFFICES ASSUME LimitInv, [Next]_vars PROVE LimitInv'
    OBVIOUS
  <2>1. CASE PushAdmit
    BY <2>1, CountStep, Zenon DEF PushAdmit, Limiters
  <2>2. CASE ContentAdmit
    <3>1. PICK n \in Batches : Admit("content", n, TRUE)
      BY <2>2, Zenon DEF ContentAdmit
    <3>2. n \in Nat /\ "content" \in Limiters /\ UNCHANGED <<route, now, flying>>
      BY <2>2, LimitConfig DEF Limiters, ContentAdmit
    <3> QED
      BY <3>1, <3>2, CountStep, Zenon
  <2>3. CASE PriorHomeAdmit
    BY <2>3, CountStep, Zenon DEF PriorHomeAdmit, Limiters
  <2>4. CASE UNCHANGED vars
    BY <2>4 DEF vars, LimitInv, OnlyInFlightOverrun
  <2> QED
    BY <2>1, <2>2, <2>3, <2>4, BackfillStep, ChargeStep, ChallengeStep, OtherSteps DEF Next
<1>3. LimitInv => LimitsHold
  <2> SUFFICES ASSUME LimitInv PROVE LimitsHold
    OBVIOUS
  <2>1. TypeOK
    BY DEF LimitInv, TypeOK, WindowState, Sound
  <2>2. AtMostTwoCaps
    <3> SUFFICES ASSUME NEW l \in Limiters, NEW b \in 0..MaxTime
                 PROVE  served[l][b] - served[l][IF b < Window THEN -1 ELSE b - Window] <= 2 * CapOf(l)
      BY DEF AtMostTwoCaps
    <3> DEFINE a == IF b < Window THEN -1 ELSE b - Window
    <3>1. a \in Seconds /\ b \in Seconds /\ b - a <= Window
      BY LimitConfig DEF Seconds
    <3>2. Bounded(served[l], CapOf(l), now)
      BY DEF LimitInv, Sound
    <3> HIDE DEF a
    <3>3. served[l][b] - served[l][a] <= 2 * CapOf(l)
      BY <3>1, <3>2 DEF Bounded
    <3> QED
      BY <3>3 DEF a
  <2> QED
    BY <2>1, <2>2 DEF LimitInv, LimitsHold
<1> QED
  BY <1>1, <1>2, <1>3, PTL DEF Spec
=============================================================================
