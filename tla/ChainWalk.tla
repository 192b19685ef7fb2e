----------------------------- MODULE ChainWalk -----------------------------
(***************************************************************************)
(* The pull side that serves chains (federation/backfill.rs): the keyset   *)
(* walk of /edges/backfill and /moves/backfill, page after page over rows  *)
(* ordered by (created_at, canonical_hash), and the per-hash lookup of     *)
(* /backfill/by-hash.  Rows arrive with any timestamp and payloads are     *)
(* erased between any two queries.                                         *)
(*                                                                         *)
(* A row is <<created_at, hash>>.  The walker is the peer's loop: it asks  *)
(* again with next_cursor until the answer says complete.                  *)
(***************************************************************************)
EXTENDS Integers, FiniteSets

CONSTANTS
    AllRows,        \* the rows there can be: <<created_at, hash>>
    Kinds,          \* subset of {"edges", "moves"}
    Limit,          \* the page size asked for
    Lookups,        \* sets of rows a by-hash request may name
    MaxErased       \* bound

ASSUME WalkConfig ==
    /\ AllRows \subseteq Nat \X Nat /\ IsFiniteSet(AllRows)
    /\ Kinds \subseteq {"edges", "moves"} /\ Limit \in Nat \ {0}
    /\ Lookups \subseteq SUBSET AllRows

VARIABLES
    kind,           \* which chain is walked
    held,           \* rows of the chain
    blank,          \* rows whose payload was erased
    walk,           \* the walker: pc, cursor, how often it received a row
    since,          \* history: rows servable all through the walk
    look,           \* the by-hash request: pc, hashes left, the two arrays
    owed            \* history: hashes held when the request began

walkVars == <<kind, held, blank, walk, since, look, owed>>

NoCursor == <<>>

WalkInit ==
    /\ kind \in Kinds
    /\ held \in SUBSET AllRows
    /\ blank = {}
    /\ walk = [pc |-> "new", cursor |-> NoCursor, got |-> [r \in AllRows |-> 0]]
    /\ since = held
    /\ look = [pc |-> "new", left |-> {}, objects |-> {}, erased |-> {}]
    /\ owed = {}

\* The order of the walk, and what lies strictly after a cursor.
Less(a, b) == a[1] < b[1] \/ (a[1] = b[1] /\ a[2] < b[2])
After_Later(r, c) == c = NoCursor \/ r[1] > c[1]
After(r, c) == c = NoCursor \/ Less(c, r)

\* How many rows of s come before r.
Rank(r, s) == Cardinality({q \in s : Less(q, r)})

\* LIMIT + 1 rows tell whether there is a next page.
HasMore(n) == n > Limit

\* One request.  Without a cursor an empty result is unknown_chain for
\* moves; for edges a second query looks for rows whose payloads are gone.
Page ==
    LET rest == {r \in held \ blank : After(r, walk.cursor)}
        page == {r \in rest : Rank(r, rest) < Limit}
        more == HasMore(Cardinality(rest)) IN
    /\ walk.pc \in {"new", "walking"}
    /\ walk' =
         IF walk.cursor = NoCursor /\ rest = {}
           THEN [walk EXCEPT !.pc = IF kind = "edges" THEN "probe" ELSE "unknown"]
           ELSE [pc |-> IF more THEN "walking" ELSE "complete",
                 cursor |-> IF more THEN CHOOSE r \in page : Rank(r, rest) = Limit - 1 ELSE NoCursor,
                 got |-> [r \in AllRows |-> walk.got[r] + (IF r \in page THEN 1 ELSE 0)]]
    /\ since' = IF walk.pc = "new" THEN held \ blank ELSE since
    /\ UNCHANGED <<kind, held, blank, look, owed>>

Probe ==
    /\ walk.pc = "probe"
    /\ walk' = [walk EXCEPT !.pc = IF held = {} THEN "unknown" ELSE "complete"]
    /\ UNCHANGED <<kind, held, blank, since, look, owed>>

\* A by-hash request, and the lookup of one of its hashes.
Ask(s) ==
    /\ look.pc = "new"
    /\ look' = [look EXCEPT !.pc = "reading", !.left = s]
    /\ owed' = s \cap held
    /\ UNCHANGED <<kind, held, blank, walk, since>>

\* The array a held row goes to.
Sorted(r) == IF r \in blank THEN {"erased"} ELSE {"objects"}

LookupHash(r) ==
    LET to == IF r \in held THEN Sorted(r) ELSE {} IN
    /\ look.pc = "reading" /\ r \in look.left
    /\ look' = [look EXCEPT !.left = @ \ {r},
                            !.objects = @ \cup (IF "objects" \in to THEN {r} ELSE {}),
                            !.erased = @ \cup (IF "erased" \in to THEN {r} ELSE {})]
    /\ UNCHANGED <<kind, held, blank, walk, since, owed>>

\* Any erased hash makes the answer 410 Gone.
Answer ==
    /\ look.pc = "reading" /\ look.left = {}
    /\ look' = [look EXCEPT !.pc = IF look.erased # {} THEN "gone" ELSE "ok"]
    /\ UNCHANGED <<kind, held, blank, walk, since, owed>>

Arrives(r) ==
    /\ r \notin held
    /\ held' = held \cup {r}
    /\ UNCHANGED <<kind, blank, walk, since, look, owed>>

Erased(r) ==
    /\ kind = "edges" /\ r \in held \ blank /\ Cardinality(blank) < MaxErased
    /\ blank' = blank \cup {r}
    /\ since' = since \ {r}
    /\ UNCHANGED <<kind, held, walk, look, owed>>

WalkNext ==
    \/ Page
    \/ Probe
    \/ \E s \in Lookups : Ask(s)
    \/ \E r \in AllRows : LookupHash(r)
    \/ Answer
    \/ \E r \in AllRows : Arrives(r)
    \/ \E r \in AllRows : Erased(r)

WalkSpec == WalkInit /\ [][WalkNext]_walkVars

-----------------------------------------------------------------------------

\* The rows received.
Got == {r \in AllRows : walk.got[r] > 0}

WalkTypeOK ==
    /\ kind \in Kinds
    /\ held \subseteq AllRows /\ blank \subseteq held /\ since \subseteq held
    /\ walk.pc \in {"new", "walking", "probe", "complete", "unknown"}
    /\ walk.cursor = NoCursor \/ walk.cursor \in AllRows
    /\ walk.got \in [AllRows -> Nat] /\ Got \subseteq held
    /\ look.pc \in {"new", "reading", "ok", "gone"}
    /\ look.left \cup look.objects \cup look.erased \cup owed \subseteq AllRows

\* A walk that ends with complete: true has delivered every row that could
\* be served all through it, whatever arrived or was erased between the
\* pages and however many rows share a timestamp.
CompleteWalkMissesNothing == walk.pc = "complete" => since \subseteq Got

\* No page repeats a row of an earlier one.
WalkNeverRepeats == \A r \in AllRows : walk.got[r] <= 1

\* The three-way answer of by-hash: a hash held when the request came is
\* reported, available or erased, and the answer is 410 when any is erased.
HeldIsAccounted ==
    look.pc \in {"ok", "gone"} =>
        /\ owed \subseteq look.objects \cup look.erased
        /\ look.objects \cap look.erased = {}

\* A walk that ends with complete: true has delivered every row that could be served
\* all through it and repeated none, and a lookup by hash accounts for every hash held
\* when it came, although rows arrive and are erased meanwhile.
WalkIsExact ==
    /\ WalkTypeOK /\ CompleteWalkMissesNothing
    /\ WalkNeverRepeats /\ HeldIsAccounted
=============================================================================
