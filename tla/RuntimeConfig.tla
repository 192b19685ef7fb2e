--------------------------- MODULE RuntimeConfig ---------------------------
(***************************************************************************)
(* The instance's runtime configuration (admin_config.rs,                  *)
(* instance_config.rs): one row of instance_config and the mirrors of it   *)
(* on AppState that everything reads; PATCH /api/admin/config, a restart,  *)
(* and the attachment storage budget, a token bucket that uploads debit    *)
(* under the mirrored parameters (attachments/upload.rs debit_budget).     *)
(*                                                                         *)
(* A configuration is a function from its fields; the fields fall into     *)
(* three groups (schedule, source URL, budget), each behind a lock of its  *)
(* own and saved by an UPDATE of its own.  A PATCH takes its snapshots,    *)
(* validates and begins; commits or fails; then writes the mirrors of the  *)
(* groups that changed, one lock at a time.                                *)
(***************************************************************************)
EXTENDS Integers

CONSTANTS
    Patches,        \* PATCH requests
    Body,           \* Patches -> the fields a request supplies, with values
    Start,          \* the seeded row
    Uploads,        \* uploads of one user
    Size,           \* Uploads -> bytes stored
    DayTicks,       \* ticks of the clock in a day (86 400 s)
    LastTick,       \* bound
    MaxRestarts     \* bound

Schedule == {"debounce", "min", "max"}
Budget == {"cap", "refill"}
Url == {"url"}
Groups == {Schedule, Budget, Url}
Fields == UNION Groups

\* The amounts are unsigned, and the seeded row satisfies its CHECK constraints.
ASSUME ConfigValues ==
    /\ Start \in [Fields -> Nat]
    /\ Start["debounce"] <= Start["min"] /\ Start["min"] <= Start["max"]
    /\ \A c \in Patches : \A f \in DOMAIN Body[c] : f \in Fields /\ Body[c][f] \in Nat
    /\ Size \in [Uploads -> Nat] /\ DayTicks \in Nat \ {0} /\ {LastTick, MaxRestarts} \subseteq Nat

VARIABLES
    stored,         \* the row
    mirror,         \* the mirrors on AppState
    patch,          \* per request: pc, snapshot, groups still to mirror
    committed,      \* history: every value a group of the row has had
    upload,         \* per upload: pc and the budget it read
    bucket,         \* user_storage_budgets of the user
    tick, restarts

configVars == <<stored, mirror, patch, committed, upload, bucket, tick, restarts>>

Part(c, g) == [f \in g |-> c[f]]

ConfigTypeOK ==
    /\ DOMAIN stored = Fields /\ DOMAIN mirror = Fields
    /\ \A c \in Patches : /\ patch[c].pc \in {"new", "begun", "mirrors", "done"}
                          /\ patch[c].left \subseteq Groups
    /\ \A u \in Uploads : upload[u].pc \in {"new", "read", "done"}
    /\ bucket.avail \in Int /\ bucket.spent \in Nat /\ bucket.at \in 0 .. LastTick
    /\ tick \in 0 .. LastTick /\ restarts \in 0 .. MaxRestarts

ConfigInit ==
    /\ stored = Start /\ mirror = Start
    /\ patch = [c \in Patches |-> [pc |-> "new", snap |-> Start, left |-> {}]]
    /\ committed = {Part(Start, g) : g \in Groups}
    /\ upload = [u \in Uploads |-> [pc |-> "new", cap |-> 0, refill |-> 0]]
    /\ bucket = [row |-> FALSE, avail |-> 0, at |-> 0, spent |-> 0]
    /\ tick = 0 /\ restarts = 0

-----------------------------------------------------------------------------
(* PATCH /api/admin/config. *)

\* The supplied fields over the snapshot.
Candidate(c, snap) ==
    [f \in Fields |-> IF f \in DOMAIN Body[c] THEN Body[c][f] ELSE snap[f]]

Changed(c, snap) == {g \in Groups : Part(Candidate(c, snap), g) # Part(snap, g)}

\* validate_rebuild_schedule, and the CHECK constraints that repeat it.
Ordered(s) == s["debounce"] <= s["min"] /\ s["min"] <= s["max"]

\* The snapshots, the overlay, the validation, and the early return.
Begin(c) ==
    /\ patch[c].pc = "new"
    /\ LET groups == Changed(c, mirror)
           bad == Schedule \in groups /\ ~Ordered(Candidate(c, mirror)) IN
       patch' = [patch EXCEPT ![c] =
                   [pc |-> IF bad \/ groups = {} THEN "done" ELSE "begun",
                    snap |-> mirror, left |-> IF bad THEN {} ELSE groups]]
    /\ UNCHANGED <<stored, mirror, committed, upload, bucket, tick, restarts>>

\* save_rebuild_schedule, save_source_repo_url, save_attachment_budget: each
\* writes every column of its group.
Saved(row, cand, groups) ==
    [f \in Fields |-> IF \E g \in groups : f \in g THEN cand[f] ELSE row[f]]

Commit(c) ==
    LET row == Saved(stored, Candidate(c, patch[c].snap), patch[c].left) IN
    /\ patch[c].pc = "begun"
    /\ Ordered(row)
    /\ stored' = row
    /\ committed' = committed \cup {Part(row, g) : g \in Groups}
    /\ patch' = [patch EXCEPT ![c].pc = "mirrors"]
    /\ UNCHANGED <<mirror, upload, bucket, tick, restarts>>

\* The transaction fails (a busy database): the handler returns the error.
AfterFailure_Goes == "mirrors"
AfterFailure == "done"

CommitFails(c) ==
    /\ patch[c].pc = "begun"
    /\ patch' = [patch EXCEPT ![c].pc = AfterFailure]
    /\ UNCHANGED <<stored, mirror, committed, upload, bucket, tick, restarts>>

\* One mirror, under its write lock.
Mirrored(c, g) ==
    [f \in Fields |-> IF f \in g THEN Candidate(c, patch[c].snap)[f] ELSE mirror[f]]

\* The mirrors are written in this order.
Turn(g, left) == /\ g \in left
                 /\ g = Url => Schedule \notin left
                 /\ g = Budget => left = {Budget}

WriteMirror(c) ==
    /\ patch[c].pc = "mirrors"
    /\ \E g \in Groups :
        /\ Turn(g, patch[c].left)
        /\ mirror' = Mirrored(c, g)
        /\ patch' = [patch EXCEPT ![c].left = @ \ {g},
                                  ![c].pc = IF patch[c].left = {g} THEN "done" ELSE @]
    /\ UNCHANGED <<stored, committed, upload, bucket, tick, restarts>>

\* The process dies with its requests and reads the row when it starts.
Restart ==
    /\ restarts < MaxRestarts
    /\ restarts' = restarts + 1
    /\ mirror' = stored
    /\ patch' = [c \in Patches |-> IF patch[c].pc \in {"begun", "mirrors"}
                                 THEN [patch[c] EXCEPT !.pc = "done"] ELSE patch[c]]
    /\ upload' = [u \in Uploads |-> IF upload[u].pc = "read"
                                    THEN [upload[u] EXCEPT !.pc = "done"] ELSE upload[u]]
    /\ UNCHANGED <<stored, committed, bucket, tick>>

-----------------------------------------------------------------------------
(* The storage budget. *)

UploadReads(u) ==
    /\ upload[u].pc = "new"
    /\ upload' = [upload EXCEPT ![u] = [pc |-> "read", cap |-> mirror["cap"],
                                        refill |-> mirror["refill"]]]
    /\ UNCHANGED <<stored, mirror, patch, committed, bucket, tick, restarts>>

\* The lazy refill of a row, capped; a user's first upload finds a full bucket.
Refilled(u) ==
    LET full == bucket.avail + (upload[u].refill * (tick - bucket.at)) \div DayTicks IN
    IF bucket.row /\ full < upload[u].cap THEN full ELSE upload[u].cap

\* last_refill_at after a debit.
Stamp == tick

\* debit_budget in the upload's transaction; an overdraft is an error.
Debit(u) ==
    /\ upload[u].pc = "read"
    /\ bucket' = IF Refilled(u) < Size[u] THEN bucket
                 ELSE [row |-> TRUE, avail |-> Refilled(u) - Size[u], at |-> Stamp,
                       spent |-> bucket.spent + Size[u]]
    /\ upload' = [upload EXCEPT ![u].pc = "done"]
    /\ UNCHANGED <<stored, mirror, patch, committed, tick, restarts>>

TickPasses ==
    /\ tick < LastTick
    /\ tick' = tick + 1
    /\ UNCHANGED <<stored, mirror, patch, committed, upload, bucket, restarts>>

ConfigNext ==
    \/ \E c \in Patches : Begin(c)
    \/ \E c \in Patches : Commit(c)
    \/ \E c \in Patches : CommitFails(c)
    \/ \E c \in Patches : WriteMirror(c)
    \/ Restart
    \/ \E u \in Uploads : UploadReads(u)
    \/ \E u \in Uploads : Debit(u)
    \/ TickPasses

ConfigSpec == ConfigInit /\ [][ConfigNext]_configVars

-----------------------------------------------------------------------------

\* The rebuild loop reads its schedule from the mirror at any moment and
\* always finds debounce <= min <= max, though requests validate against
\* snapshots that others overwrite meanwhile.
LoopScheduleOrdered == Ordered(mirror)

\* "In-memory mirrors are updated only after the commit succeeds so a
\* rollback can't leave them ahead of the DB": each mirror holds a value its
\* columns have had.
MirrorNotAhead == \A g \in Groups : Part(mirror, g) \in committed

\* The values a field ever has, and the largest of them.
ValuesOf(f) == {Start[f]} \cup {Body[c][f] : c \in {d \in Patches : f \in DOMAIN Body[d]}}
IsTop(v, f) == v \in ValuesOf(f) /\ \A w \in ValuesOf(f) : w <= v

\* However uploads, refills and configuration changes interleave, a user
\* stores no more than the largest bucket and the largest refill allow.
SpendBounded ==
    \A cap \in ValuesOf("cap"), refill \in ValuesOf("refill") :
        IsTop(cap, "cap") /\ IsTop(refill, "refill") =>
            bucket.spent * DayTicks <= cap * DayTicks + refill * tick

\* What the server runs on was committed, and the rebuild loop's share of it in order,
\* although each mirror is written by itself after the commit; and no upload overspends,
\* though it reads the parameters of the budget before it charges it.
ConfigSound == ConfigTypeOK /\ LoopScheduleOrdered /\ MirrorNotAhead /\ SpendBounded
=============================================================================
