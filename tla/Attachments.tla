----------------------------- MODULE Attachments -----------------------------
(***************************************************************************)
(* Attachments of one instance, from upload to eviction: the upload and    *)
(* the staging row (server/src/attachments/upload.rs), the binding to the  *)
(* revisions of a post (bind.rs, posts.rs, threads/create_thread.rs), the  *)
(* orphan GC and the hourly sweep (sweep.rs), the references of federated  *)
(* posts (federation/attachments_projection.rs), the fetch on demand and   *)
(* its failure rows (attachments/serve.rs, federation/attachment_fetch.rs) *)
(* and the bounded cache (federation/attachment_cache.rs).  Every request  *)
(* is a process; what it read before its transaction may be stale in it.   *)
(* The storage budget of an upload is the subject of RuntimeConfig.        *)
(***************************************************************************)
EXTENDS Integers, FiniteSets, FiniteSetsExt

CONSTANTS
  Hashes,      \* content hashes; every blob has size 1
  Call,        \* request -> [op, by, post, files]
  Scenarios,   \* the sets of requests that run together
  Author,      \* post -> its author
  Remote,      \* posts whose home_instance is another instance
  NoUser,      \* NULL of attachment_blobs.uploader
  MaxBytes,    \* [federation.attachment_cache] max_bytes
  Batch,       \* BATCH_SIZE
  Floor,       \* LRU_FLOOR_SECS
  Backoff,     \* ATTACHMENT_RETRY_BACKOFF
  Ttl,         \* staging_ttl_seconds
  MaxTick,     \* bound on the clock
  MaxSweeps    \* bound on the passes of the sweeper

VARIABLES
  tick,
  blobs,    \* attachment_blobs
  staged,   \* attachment_staging
  bound,    \* post_attachments: [post, rev, hash]
  pst,      \* posts and post_revisions
  gone,     \* users.deleted_at
  fails,    \* attachment_fetch_failures
  ask,      \* the requests of this behaviour
  sweep,    \* the sweeper: its place, its count of the bytes in use, the passes made
  uploaded, \* history: who uploaded what
  warm,     \* history: when the bytes of a hash were created or last served
  crossed   \* history: posts retracted, and users deleted, while a request of theirs ran

attVars == <<tick, blobs, staged, bound, pst, gone, fails, ask, sweep, uploaded, warm, crossed>>

Posts == DOMAIN Author
Asks == DOMAIN ask
NoBlob == [row |-> FALSE, bytes |-> "none", by |-> NoUser, touched |-> 0]
NoStage == [by |-> NoUser, until |-> 0]
NoFail == [kind |-> "none", at |-> 0]
\* A post of revs revisions, none before it exists; live says some revision has a body.
NoPost == [revs |-> 0, live |-> FALSE, retracted |-> FALSE, barred |-> FALSE]

AttInit ==
  /\ tick = 0
  /\ blobs = [h \in Hashes |-> NoBlob] /\ staged = [h \in Hashes |-> NoStage]
  /\ bound = {} /\ pst = [p \in Posts |-> NoPost] /\ gone = {}
  /\ fails = [h \in Hashes |-> NoFail]
  /\ \E s \in Scenarios : ask = [c \in s |-> [at |-> "new", seen |-> 0]]
  /\ sweep = [at |-> "idle", used |-> 0, passes |-> 0]
  /\ uploaded = {} /\ warm = [h \in Hashes |-> 0] /\ crossed = {}

Op(c) == Call[c].op
Who(c) == Call[c].by
Post(c) == Call[c].post
Files(c) == Call[c].files
File(c) == CHOOSE h \in Files(c) : TRUE
Goes(c, at) == ask' = [ask EXCEPT ![c].at = at]
Ends(c) == Goes(c, "done")

-----------------------------------------------------------------------------
(* The tables.                                                             *)

\* attachment_blobs.refcount, which the two triggers on post_attachments keep.
Refcount(h, bd) == Cardinality({b \in bd : b.hash = h})

\* gc_orphan_blobs(): no binding and no staging row.
Orphan_Staged(h, st, bd) == Refcount(h, bd) = 0
Orphan(h, st, bd) == Refcount(h, bd) = 0 /\ st[h] = NoStage
Gc(bl, st, bd) == [h \in Hashes |-> IF Orphan(h, st, bd) THEN NoBlob ELSE bl[h]]
\* The failure row goes with the blob row it references.
FailsOf(bl) == [h \in Hashes |-> IF bl[h].row THEN fails[h] ELSE NoFail]

\* validate_attachments(): the row exists, and the caller staged it or has it bound.
MayBind(u, h, bd) ==
  /\ blobs[h].row
  /\ \/ staged[h].by = u
     \/ \E b \in bd : b.hash = h /\ Author[b.post] = u
\* persist_attachment_bindings(): the rows of one revision; staging rows are dropped
\* whoever staged them.
Bindings(p, rev, files) == {[post |-> p, rev |-> rev, hash |-> h] : h \in files}
Unstage(files) == [h \in Hashes |-> IF h \in files THEN NoStage ELSE staged[h]]

\* A binding of the current revision of a post that is not retracted.
Current(b) == b.rev = pst[b.post].revs - 1 /\ ~pst[b.post].retracted
\* handle_attachment_fetch() and the eviction agree on this: a current local binding of
\* a user who is still there obliges the instance to hold the bytes.
OriginBound(h) ==
  \E b \in bound : b.hash = h /\ Current(b) /\ b.post \notin Remote /\ Author[b.post] \notin gone

-----------------------------------------------------------------------------
(* Local requests.                                                         *)

\* The session is good: AuthUser lets the handler run.
Enters(c) ==
  /\ ask[c].at = "new" /\ Op(c) \in {"upload", "create", "delete"} /\ Who(c) \notin gone
  /\ Goes(c, "in")
  /\ UNCHANGED <<tick, blobs, staged, bound, pst, gone, fails, sweep, uploaded, warm, crossed>>

\* upload_attachment(): the bytes may be refused before the transaction, or by the
\* budget in it.
UploadRefused(c) ==
  /\ ask[c].at = "in" /\ Op(c) = "upload"
  /\ Ends(c)
  /\ UNCHANGED <<tick, blobs, staged, bound, pst, gone, fails, sweep, uploaded, warm, crossed>>

\* The row keeps its first uploader and gets bytes if it has none; a staging row of
\* another uploader stands.
UploadCommits(c) ==
  LET h == File(c) IN
  /\ ask[c].at = "in" /\ Op(c) = "upload"
  /\ blobs' = [blobs EXCEPT ![h] =
       IF @.row THEN [@ EXCEPT !.bytes = IF @ = "none" THEN "good" ELSE @]
       ELSE [row |-> TRUE, bytes |-> "good", by |-> Who(c), touched |-> tick]]
  /\ staged' = [staged EXCEPT ![h] = IF @ = NoStage THEN [by |-> Who(c), until |-> tick + Ttl] ELSE @]
  /\ uploaded' = uploaded \union {<<Who(c), h>>}
  /\ warm' = [warm EXCEPT ![h] = IF blobs[h].row THEN @ ELSE tick]
  /\ Ends(c)
  /\ UNCHANGED <<tick, bound, pst, gone, fails, sweep, crossed>>

\* create_thread(): validation, the signing key and the rows are one transaction, which
\* an account deleted meanwhile (no active key) or a file it may not bind rolls back.
CreateCommits(c) ==
  LET p == Post(c)
      ok == Who(c) \notin gone /\ \A h \in Files(c) : MayBind(Who(c), h, bound)
  IN /\ ask[c].at = "in" /\ Op(c) = "create"
     /\ pst' = IF ok THEN [pst EXCEPT ![p] = [NoPost EXCEPT !.revs = 1, !.live = TRUE]] ELSE pst
     /\ bound' = IF ok THEN bound \union Bindings(p, 0, Files(c)) ELSE bound
     /\ staged' = IF ok THEN Unstage(Files(c)) ELSE staged
     /\ Ends(c)
     /\ UNCHANGED <<tick, blobs, gone, fails, sweep, uploaded, warm, crossed>>

\* edit_post(), retract_post(), remove_post() read the post by itself and stop if it is
\* retracted.  (Retract reads the signing key right after.)
Refuses(p) == pst[p].retracted
PostReads(c) ==
  LET p == Post(c) IN
  /\ ask[c].at = "new" /\ Op(c) \in {"edit", "retract", "remove"} /\ pst[p].revs > 0
  /\ Op(c) # "remove" => Who(c) \notin gone
  /\ Goes(c, IF Refuses(p) THEN "done" ELSE "read")
  /\ UNCHANGED <<tick, blobs, staged, bound, pst, gone, fails, sweep, uploaded, warm, crossed>>

\* edit_post() from BEGIN on: bindings of the hashes the new revision leaves out are
\* dropped from every revision, the new array is validated against what is left, and
\* nothing looks at retracted_at again.
EditCommits(c) ==
  LET p == Post(c)
      rev == pst[p].revs
      prior == {b.hash : b \in {x \in bound : x.post = p /\ x.rev = rev - 1}}
      kept == {b \in bound : ~(b.post = p /\ b.hash \in prior \ Files(c))}
      ok == rev > 0 /\ Who(c) \notin gone /\ \A h \in Files(c) : MayBind(Who(c), h, kept)
      bd == kept \union Bindings(p, rev, Files(c))
      bl == Gc(blobs, Unstage(Files(c)), bd)
  IN /\ ask[c].at = "read" /\ Op(c) = "edit"
     /\ IF ok
        THEN /\ bound' = bd /\ staged' = Unstage(Files(c))
             /\ blobs' = bl /\ fails' = FailsOf(bl)
             /\ pst' = [pst EXCEPT ![p].revs = rev + 1, ![p].live = TRUE]
        ELSE UNCHANGED <<bound, staged, blobs, fails, pst>>
     /\ Ends(c)
     /\ UNCHANGED <<tick, gone, sweep, uploaded, warm, crossed>>

\* Edits of p that have read the post and not yet written it.
EditsIn(p) == {c \in Asks : Op(c) = "edit" /\ Post(c) = p /\ ask[c].at = "read"}
Crossing(ps) == {p \in ps : EditsIn(p) # {}}

\* retract_post(): bodies blanked, every binding of the post dropped, orphans collected.
RetractCommits(c) ==
  LET p == Post(c)
      bd == {b \in bound : b.post # p}
      bl == Gc(blobs, staged, bd)
  IN /\ ask[c].at = "read" /\ Op(c) = "retract"
     /\ IF pst[p].revs > 0
        THEN /\ pst' = [pst EXCEPT ![p].retracted = TRUE, ![p].live = FALSE]
             /\ bound' = bd /\ blobs' = bl /\ fails' = FailsOf(bl)
             /\ crossed' = crossed \union Crossing({p})
        ELSE UNCHANGED <<pst, bound, blobs, fails, crossed>>
     /\ Ends(c)
     /\ UNCHANGED <<tick, staged, gone, sweep, uploaded, warm>>

\* remove_post(): bodies replaced, the bindings stay; the authority row is unique, so a
\* second removal of the post rolls back.
RemoveCommits(c) ==
  LET p == Post(c) IN
  /\ ask[c].at = "read" /\ Op(c) = "remove"
  /\ IF pst[p].revs > 0 /\ ~pst[p].barred
     THEN /\ pst' = [pst EXCEPT ![p].retracted = TRUE, ![p].live = FALSE, ![p].barred = TRUE]
          /\ crossed' = crossed \union Crossing({p})
     ELSE UNCHANGED <<pst, crossed>>
  /\ Ends(c)
  /\ UNCHANGED <<tick, blobs, staged, bound, gone, fails, sweep, uploaded, warm>>

\* The link between the deleted user and what they uploaded.
Severed(bl, u) == [h \in Hashes |-> IF bl[h].by = u THEN [bl[h] EXCEPT !.by = NoUser] ELSE bl[h]]

\* soft_delete_user(): posts retracted and blanked, staging rows dropped, orphans
\* collected, the uploader of what is left forgotten.  No binding is dropped, neither of
\* the posts retracted here nor of those retracted before, so their blobs are no orphans.
DeleteCommits(c) ==
  LET u == Who(c)
      st == [h \in Hashes |-> IF staged[h].by = u THEN NoStage ELSE staged[h]]
      bl == Severed(Gc(blobs, st, bound), u)
      mine == {p \in Posts : Author[p] = u /\ pst[p].revs > 0 /\ ~pst[p].retracted}
  IN /\ ask[c].at = "in" /\ Op(c) = "delete"
     /\ gone' = gone \union {u} /\ staged' = st /\ blobs' = bl /\ fails' = FailsOf(bl)
     /\ pst' = [p \in Posts |->
          IF p \in mine THEN [pst[p] EXCEPT !.retracted = TRUE, !.live = FALSE] ELSE pst[p]]
     /\ crossed' = crossed \union Crossing(mine)
          \union (IF \E d \in Asks : Op(d) = "upload" /\ Who(d) = u /\ ask[d].at = "in" THEN {u} ELSE {})
     /\ Ends(c)
     /\ UNCHANGED <<tick, bound, sweep, uploaded, warm>>

\* delete_room(): the posts of the room and their revisions go, their bindings by
\* cascade; the blobs are left to the sweeper.
RoomCommits(c) ==
  LET p == Post(c) IN
  /\ ask[c].at = "new" /\ Op(c) = "room" /\ pst[p].revs > 0
  /\ pst' = [pst EXCEPT ![p] = NoPost] /\ bound' = {b \in bound : b.post # p}
  /\ Ends(c)
  /\ UNCHANGED <<tick, blobs, staged, gone, fails, sweep, uploaded, warm, crossed>>

-----------------------------------------------------------------------------
(* Federated posts.                                                        *)

\* project_post_attachments(): a row without bytes for a hash not yet known, and the
\* binding.
ProjectCommits(c) ==
  LET p == Post(c) IN
  /\ ask[c].at = "new" /\ Op(c) = "project" /\ pst[p].revs = 0
  /\ pst' = [pst EXCEPT ![p].revs = 1, ![p].live = TRUE]
  /\ blobs' = [h \in Hashes |->
       IF h \in Files(c) /\ ~blobs[h].row THEN [NoBlob EXCEPT !.row = TRUE, !.touched = tick] ELSE blobs[h]]
  /\ bound' = bound \union Bindings(p, 0, Files(c))
  /\ warm' = [h \in Hashes |-> IF h \in Files(c) /\ ~blobs[h].row THEN tick ELSE warm[h]]
  /\ Ends(c)
  /\ UNCHANGED <<tick, staged, gone, fails, sweep, uploaded, crossed>>

\* erase_all_for_user_key(): the author deactivated; bindings dropped, post retracted.
ErasedAtHome(c) ==
  LET p == Post(c) IN
  /\ ask[c].at = "new" /\ Op(c) = "erase" /\ pst[p].revs > 0
  /\ pst' = [pst EXCEPT ![p].retracted = TRUE, ![p].live = FALSE]
  /\ bound' = {b \in bound : b.post # p}
  /\ Ends(c)
  /\ UNCHANGED <<tick, blobs, staged, gone, fails, sweep, uploaded, warm, crossed>>

-----------------------------------------------------------------------------
(* Serving, and fetching what is missing.                                  *)

\* serve_attachment(): without a current binding the viewer may see, 404.  Bytes at hand
\* are served; a row without bytes leads to the failure table.
ServeLooks(c) ==
  LET h == File(c) IN
  /\ ask[c].at = "new" /\ Op(c) = "serve" /\ \E b \in bound : b.hash = h /\ Current(b)
  /\ ask' = [ask EXCEPT ![c] = [at |-> IF blobs[h].bytes = "none" THEN "gate" ELSE "serve", seen |-> tick]]
  /\ UNCHANGED <<tick, blobs, staged, bound, pst, gone, fails, sweep, uploaded, warm, crossed>>

\* try_fetch_for_serve(): a mismatch is final, a transient failure holds for a while.
MayTry(h) == \/ fails[h].kind = "none"
             \/ fails[h].kind = "transient" /\ tick - fails[h].at >= Backoff
\* resolve_origins(): the homes of the remote posts that bind the hash.
Origins(h) == {b.post : b \in {x \in bound : x.hash = h /\ x.post \in Remote}}
GateReads(c) ==
  LET h == File(c) IN
  /\ ask[c].at = "gate"
  /\ ask' = [ask EXCEPT ![c] = [at |-> IF MayTry(h) /\ Origins(h) # {} THEN "fetch" ELSE "done", seen |-> tick]]
  /\ UNCHANGED <<tick, blobs, staged, bound, pst, gone, fails, sweep, uploaded, warm, crossed>>

\* fetch_from_candidate(): bytes of another hash are discarded; the right ones fill a
\* row that still has none.
Accepts(a) == a = "good"
\* The candidates in turn: the first to send the bytes or wrong bytes decides; when all
\* are without, or the time is up, the failure is transient.
FetchAnswers(c, a) ==
  LET h == File(c) IN
  /\ ask[c].at = "fetch"
  /\ blobs' = [blobs EXCEPT ![h].bytes = IF Accepts(a) /\ @ = "none" /\ blobs[h].row THEN a ELSE @]
  /\ Goes(c, IF Accepts(a) THEN "clear" ELSE IF a = "bad" THEN "mismatch" ELSE "transient")
  /\ UNCHANGED <<tick, staged, bound, pst, gone, fails, sweep, uploaded, warm, crossed>>

\* record_failure(): the row takes the kind and the time the attempt began, so that a
\* transient failure of an attempt that overlaps replaces a mismatch.
FailureRecorded(c) ==
  LET h == File(c) IN
  /\ ask[c].at \in {"mismatch", "transient"}
  /\ fails' = [fails EXCEPT ![h] =
       IF blobs[h].row THEN [kind |-> ask[c].at, at |-> ask[c].seen] ELSE @]
  /\ Ends(c)
  /\ UNCHANGED <<tick, blobs, staged, bound, pst, gone, sweep, uploaded, warm, crossed>>

FailureCleared(c) ==
  /\ ask[c].at = "clear"
  /\ fails' = [fails EXCEPT ![File(c)] = NoFail]
  /\ Goes(c, "reread")
  /\ UNCHANGED <<tick, blobs, staged, bound, pst, gone, sweep, uploaded, warm, crossed>>

Rereads(c) ==
  /\ ask[c].at = "reread"
  /\ Goes(c, IF blobs[File(c)].bytes = "none" THEN "done" ELSE "serve")
  /\ UNCHANGED <<tick, blobs, staged, bound, pst, gone, fails, sweep, uploaded, warm, crossed>>

\* bump_accessed_at(): only when the stored time is Floor old.
Stale(h) == tick - blobs[h].touched >= Floor
Bumps(c) ==
  LET h == File(c) IN
  /\ ask[c].at = "serve"
  /\ blobs' = [blobs EXCEPT ![h].touched = IF blobs[h].row /\ Stale(h) THEN tick ELSE @]
  /\ warm' = [warm EXCEPT ![h] = IF blobs[h].row THEN tick ELSE @]
  /\ Ends(c)
  /\ UNCHANGED <<tick, staged, bound, pst, gone, fails, sweep, uploaded, crossed>>

-----------------------------------------------------------------------------
(* The sweeper.                                                            *)

\* run_sweep(), its transaction: expired staging rows, then the orphans.
SweepCollects ==
  LET st == [h \in Hashes |-> IF staged[h].until < tick THEN NoStage ELSE staged[h]]
      bl == Gc(blobs, st, bound)
  IN /\ sweep.at = "idle" /\ sweep.passes < MaxSweeps
     /\ staged' = st /\ blobs' = bl /\ fails' = FailsOf(bl)
     /\ sweep' = [sweep EXCEPT !.at = "count", !.passes = @ + 1]
     /\ UNCHANGED <<tick, bound, pst, gone, ask, uploaded, warm, crossed>>

Eligible(h) == blobs[h].bytes # "none" /\ ~OriginBound(h)
Cached == {h \in Hashes : Eligible(h)}

\* run_eviction() counts once ...
SweepCounts ==
  LET n == Cardinality(Cached) IN
  /\ sweep.at = "count"
  /\ sweep' = [sweep EXCEPT !.at = IF n > MaxBytes THEN "evict" ELSE "idle", !.used = IF n > MaxBytes THEN n ELSE 0]
  /\ UNCHANGED <<tick, blobs, staged, bound, pst, gone, fails, ask, uploaded, warm, crossed>>

\* ... and evict_one_batch() takes the oldest of a batch until its target is met.
Oldest(E) == \A e \in E, k \in Cached \ E : blobs[e].touched <= blobs[k].touched
SweepEvicts(E) ==
  LET left == sweep.used - Cardinality(E) IN
  /\ sweep.at = "evict" /\ E \subseteq Cached /\ Oldest(E)
  /\ Cardinality(E) = Min({sweep.used - MaxBytes, Batch, Cardinality(Cached)})
  /\ blobs' = [h \in Hashes |-> IF h \in E THEN [blobs[h] EXCEPT !.bytes = "none"] ELSE blobs[h]]
  /\ sweep' = [sweep EXCEPT !.at = IF left > MaxBytes /\ E # {} THEN "evict" ELSE "idle",
                            !.used = IF left > MaxBytes /\ E # {} THEN left ELSE 0]
  /\ UNCHANGED <<tick, staged, bound, pst, gone, fails, ask, uploaded, warm, crossed>>

Ticks ==
  /\ tick < MaxTick /\ tick' = tick + 1
  /\ UNCHANGED <<blobs, staged, bound, pst, gone, fails, ask, sweep, uploaded, warm, crossed>>

AttNext ==
  \/ \E c \in Asks : \/ Enters(c) \/ UploadRefused(c) \/ UploadCommits(c) \/ CreateCommits(c)
                     \/ PostReads(c) \/ EditCommits(c) \/ RetractCommits(c) \/ RemoveCommits(c)
                     \/ DeleteCommits(c) \/ RoomCommits(c) \/ ProjectCommits(c) \/ ErasedAtHome(c)
                     \/ ServeLooks(c) \/ GateReads(c) \/ FailureRecorded(c) \/ FailureCleared(c)
                     \/ Rereads(c) \/ Bumps(c)
                     \/ \E a \in {"good", "bad", "none"} : FetchAnswers(c, a)
  \/ SweepCollects \/ SweepCounts \/ \E E \in SUBSET Hashes : SweepEvicts(E)
  \/ Ticks

AttSpec == AttInit /\ [][AttNext]_attVars

-----------------------------------------------------------------------------
(* Properties.                                                             *)

\* The variables have their types.
AttTypeOK ==
  /\ tick \in 0..MaxTick
  /\ \A h \in Hashes : blobs[h].bytes \in {"none", "good", "bad"} /\ (blobs[h].bytes # "none" => blobs[h].row)
  /\ \A b \in bound : b.rev < pst[b.post].revs

\* What hangs on a row is there: neither the inline collections of edit, retract and
\* delete nor the sweeper takes a row that a binding or a staging row refers to.
NothingDangles == \A h \in Hashes : staged[h] # NoStage \/ Refcount(h, bound) > 0 => blobs[h].row

\* "Origin-authored blobs ... MUST NOT be touched by the cache sweep": no step takes the
\* bytes of a hash that a current post of ours binds, before and after it.
OriginKeepsBytesStep ==
  \A h \in Hashes : OriginBound(h) /\ OriginBound(h)' /\ blobs[h].bytes # "none"
    => blobs'[h].bytes # "none"

\* The bytes under a hash are those of the hash, whoever sent them.
BytesMatchHash == \A h \in Hashes : blobs[h].bytes # "bad"

\* validate_attachments(): "Either form proves they got the hash legitimately": whoever
\* has a file bound to a post of theirs uploaded it once, whatever they edited since.
BoundByUploader == \A b \in bound : b.post \notin Remote => <<Author[b.post], b.hash>> \in uploaded

\* A retracted or removed post shows nothing, unless an edit that had read it before was
\* under way.
RetractedStaysBlank == \A p \in Posts : pst[p].retracted /\ p \notin crossed => ~pst[p].live

\* "NULLing severs the link": no blob row names a deleted user, unless an upload of
\* theirs was under way.
UploaderForgotten == \A h \in Hashes : blobs[h].by \in gone => blobs[h].by \in crossed

\* The eviction is least-recently-used up to the floor: what it takes was not served
\* Floor or more after anything it leaves.
LruWithinFloorStep ==
  \A e, k \in Hashes :
    /\ sweep.at = "evict" /\ e \in Cached /\ blobs'[e].bytes = "none"
    /\ k \in Cached /\ blobs'[k].bytes # "none"
    => warm[e] - warm[k] < Floor

=============================================================================
