--------------------------- MODULE RemoteContent ---------------------------
(***************************************************************************)
(* How an instance receives signed content of remote authors:              *)
(* POST /federation/v1/content (server/src/federation/content.rs), the     *)
(* advisory POST /federation/v1/admin-rm-report (admin_rm.rs), and the     *)
(* projection of the stored objects into users, threads and posts.         *)
(*                                                                         *)
(* Several requests are served at once.  The dedup read, the admin-rm read *)
(* and the transaction are separate steps; a transaction is one step that  *)
(* rolls back as a whole when an INSERT meets an existing row.             *)
(*                                                                         *)
(* An object is a record [cls, author, post, thread, rev, parent, room,    *)
(* home, valid]; the fields its class does not use hold any value.         *)
(***************************************************************************)
EXTENDS Naturals, FiniteSets, FiniteSetsExt

CONSTANTS
  Objs,       \* signed objects
  Scenarios,  \* sets of objects that circulate together
  Keys,       \* author keys
  Local,      \* the keys whose users row has home_instance NULL
  Posts,      \* post ids
  NoPost,     \* the parent of an opening post
  Senders,    \* active peers
  Requests,   \* push requests that may be served at the same time
  MaxReports, \* MAX_ADVISORY_REPORTS_PER_HOUR
  MaxWipes    \* bound: how often an admin deletes a room

VARIABLES
  db,     \* the tables, see DB
  req,    \* what each request has read so far
  said,   \* objects answered as applied and handed to the forwarder
  wipes,  \* rooms deleted so far
  world   \* the objects that circulate

contentVars == <<db, req, said, wipes, world>>

Classes == {"profile", "thread-create", "post-rev", "retract", "deactivate", "admin-rm"}

DB == [stored : [Objs -> {"absent", "live", "erased"}],  \* signed_objects
       by : [Objs -> SUBSET Objs],  \* erased_by, empty for NULL
       users : SUBSET Keys,       \* users rows
       deleted : SUBSET Keys,     \* users.deleted_at
       profiles : [Objs -> Nat],  \* profile_revisions rows of each profile
       threads : SUBSET Objs,     \* threads, by thread_create_hash
       posts : SUBSET Posts,      \* posts rows
       retracted : SUBSET Posts,  \* posts.retracted_at
       count : [Posts -> Nat],    \* posts.revision_count
       revs : SUBSET Objs,        \* post_revisions, by canonical_hash
       blank : SUBSET Objs,       \* post_revisions with an emptied body
       bound : SUBSET Objs,       \* post_revisions with post_attachments
       rmAuth : SUBSET Posts,     \* admin_rm_authorities
       reports : SUBSET Objs]     \* admin_rm_reports

Idle == [pc |-> "idle"]
Rev(o) == o.cls = "post-rev"
PostRevs == {o \in Objs : Rev(o)}

ContentInit ==
  /\ db = [stored |-> [o \in Objs |-> "absent"], by |-> [o \in Objs |-> {}],
           users |-> Local, deleted |-> {}, profiles |-> [o \in Objs |-> 0], threads |-> {}, posts |-> {}, retracted |-> {}, count |-> [p \in Posts |-> 0],
           revs |-> {}, blank |-> {}, bound |-> {}, rmAuth |-> {}, reports |-> {}]
  /\ req = [r \in Requests |-> Idle]
  /\ said = {}
  /\ wipes = 0
  /\ world \in Scenarios

-----------------------------------------------------------------------------
(* Projection, inside the transaction that stored the object.              *)

Stub(d, k) == k \in d.users \ Local
HasThread(d, t) == \E x \in d.threads : x.thread = t

\* INSERT OR IGNORE: a row that is already there, erased or not, stays.
store_signed_object_Overwrites(d, o) == [d EXCEPT !.stored[o] = "live"]
store_signed_object(d, o) ==
  [d EXCEPT !.stored[o] = IF @ = "absent" THEN "live" ELSE @]

\* The foreign keys project_remote_post_revision() looks for; without them, or
\* for an author who is homed here, only the bytes are kept.
Projectable(d, o) ==
  /\ Stub(d, o.author)
  /\ IF o.rev = 0
     THEN HasThread(d, o.thread) /\ (o.parent # NoPost => o.parent \in d.posts)
     ELSE o.post \in d.posts

\* MAX(revision_count, revision + 1).
revision_count(old, rev) == Max({old, rev + 1})

\* posts, post_revisions and project_post_attachments(), if all rows are there.
project_remote_post_revision(d, o) ==
  IF ~Projectable(d, o) THEN d
  ELSE [d EXCEPT !.posts = @ \union {o.post}, !.revs = @ \union {o}, !.bound = @ \union {o},
                 !.count[o.post] = IF o.rev = 0 THEN 1 ELSE revision_count(@, o.rev)]

\* reproject_orphan_post_revs_for_thread(): passes over the live post-revs that
\* have no row, until a pass projects nothing.
OnePass(d, t) ==
  LET now == {o \in PostRevs : d.stored[o] = "live" /\ o \notin d.revs /\ o.thread = t
                               /\ Projectable(d, o)}
  IN  FoldSet(LAMBDA o, e : project_remote_post_revision(e, o), d, now)
reproject_orphan_post_revs_for_thread(d, t) ==
  LET pass[n \in 0..Cardinality(PostRevs)] ==
        IF n = 0 THEN d ELSE OnePass(pass[n - 1], t)
  IN  pass[Cardinality(PostRevs)]

\* A thread whose author has a stub gets its row, and then its orphaned posts.
project_remote_thread_create_NoSweep(d, o) ==
  IF Stub(d, o.author) THEN [d EXCEPT !.threads = @ \union {o}] ELSE d
project_remote_thread_create(d, o) ==
  IF ~Stub(d, o.author) THEN d
  ELSE reproject_orphan_post_revs_for_thread([d EXCEPT !.threads = @ \union {o}], o.thread)

reproject_orphan_threads_for_author(d, k) ==
  LET orphans == {o \in Objs : o.cls = "thread-create" /\ o.author = k
                               /\ d.stored[o] = "live" /\ o \notin d.threads}
  IN  FoldSet(LAMBDA o, e : project_remote_thread_create(e, o), d, orphans)

\* hydrate_stub_user(), a profile_revisions row and the sweep of the author's threads.
project_remote_profile(d, o) ==
  IF o.author \in Local THEN d
  ELSE reproject_orphan_threads_for_author(
         [d EXCEPT !.users = @ \union {o.author}, !.profiles[o] = @ + 1], o.author)

-----------------------------------------------------------------------------
(* Erasure.                                                                *)

\* Of the given objects, payloads that are not NULL go to NULL, and their
\* erased_by to the authority.
Erase(d, os, auth) ==
  LET gone == {o \in os : d.stored[o] = "live"}
  IN  [d EXCEPT !.stored = [o \in Objs |-> IF o \in gone THEN "erased" ELSE @[o]],
                !.by = [o \in Objs |-> IF o \in gone THEN {auth} ELSE @[o]]]

\* The subquery reads post_revisions, so a post-rev without a row keeps its bytes.
erase_post_rev_payloads(d, auth) == Erase(d, {o \in d.revs : o.post = auth.post}, auth)

RevsOf(d, k) == {o \in d.revs : o.author = k}
PostsOf(d, k) == {o.post : o \in {x \in d.revs : x.author = k /\ x.rev = 0}}

\* Trust edges are not among the objects here, so erase_user_trust_edge_payloads() has no part.
erase_all_for_user_key(d, auth) ==
  LET k == auth.author IN
  IF k \notin d.users THEN d
  ELSE [Erase(d, RevsOf(d, k) \union {o \in Objs : d.profiles[o] > 0 /\ o.author = k}, auth)
        EXCEPT !.bound = @ \ RevsOf(d, k), !.retracted = @ \union PostsOf(d, k),
               !.blank = @ \union RevsOf(d, k), !.deleted = @ \union {k}]

-----------------------------------------------------------------------------
(* POST /federation/v1/content, one object of a batch.                     *)

\* admin-rm: a users row for the author means wrong_route; the sender has to be
\* the signing instance, and the signature its own.
AdminRmRefused(d, o, from) ==
  o.author \in d.users \/ from # o.home \/ ~o.valid

apply_admin_rm(d, o) ==
  [erase_post_rev_payloads(store_signed_object(d, o), o)
   EXCEPT !.rmAuth = @ \union {o.post}]

\* A row the transaction inserts is already there.
Clash(d, o) ==
  CASE o.cls = "post-rev" ->
         Projectable(d, o) /\ IF o.rev = 0 THEN o.post \in d.posts ELSE o \in d.revs
    [] o.cls = "thread-create" -> Stub(d, o.author) /\ HasThread(d, o.thread)
    [] OTHER -> FALSE

Applied(d, o) ==
  LET s == store_signed_object(d, o) IN
  CASE o.cls = "post-rev" -> project_remote_post_revision(s, o)
    [] o.cls = "thread-create" -> project_remote_thread_create(s, o)
    [] o.cls = "profile" -> project_remote_profile(s, o)
    [] o.cls = "retract" -> erase_post_rev_payloads(s, o)
    [] o.cls = "deactivate" -> erase_all_for_user_key(s, o)
    [] o.cls = "admin-rm" -> apply_admin_rm(d, o)

\* Steps 1 to 5: size, WireFormat, dedup, class and signature.  An object that
\* is refused, erased or a duplicate is answered here and changes nothing.
\* Requests are interchangeable: the first free one serves the next object; and
\* only an admin-rm looks at who sent it.
Free(r) == req[r] = Idle /\ \A q \in Requests : req[q] = Idle => r <= q
Receive(r) ==
  /\ Free(r)
  /\ \E o \in world, from \in Senders :
       /\ o.cls # "admin-rm" => from = o.home
       /\ db.stored[o] = "absent"
       /\ o.cls \in Classes /\ (o.valid \/ o.cls = "admin-rm")
       /\ req' = [req EXCEPT ![r] = [pc |-> "checked", obj |-> o, from |-> from]]
  /\ UNCHANGED <<db, said, wipes, world>>

\* Step 6: admin_rm_blocks(), outside the transaction.
Blocked(o) == o.cls \in {"post-rev", "retract"} /\ o.post \in db.rmAuth
Check(r) ==
  /\ req[r].pc = "checked"
  /\ req' = [req EXCEPT ![r] = IF Blocked(req[r].obj) THEN Idle ELSE [@ EXCEPT !.pc = "tx"]]
  /\ UNCHANGED <<db, said, wipes, world>>

\* Step 7: BEGIN IMMEDIATE to COMMIT, the answer, and forward_signed_object()
\* of what was applied.  A clash is a database error: 500, nothing is kept.
Commits(d, o) == ~Clash(d, o)
Apply(r) ==
  /\ req[r].pc = "tx"
  /\ LET o == req[r].obj
         ok == Commits(db, o) /\ ~(o.cls = "admin-rm" /\ AdminRmRefused(db, o, req[r].from))
     IN  /\ db' = IF ok THEN Applied(db, o) ELSE db
         /\ said' = IF ok THEN said \union {o} ELSE said
  /\ req' = [req EXCEPT ![r] = Idle]
  /\ UNCHANGED <<wipes, world>>

-----------------------------------------------------------------------------
(* POST /federation/v1/admin-rm-report.                                    *)

\* Signature, home, post, rate and dedup are read one after the other, each in
\* a query of its own; only rows are ever added to what they read.  The cap is per signing
\* instance, and a behaviour lies within its hour.
ReportReads(o) ==
  /\ o.cls = "admin-rm" /\ o.valid
  /\ o.author \in db.users /\ o.post \in db.posts
  /\ Cardinality({x \in db.reports : x.home = o.home}) < MaxReports
  /\ ~\E x \in db.reports : x.post = o.post
ReportCheck(r) ==
  /\ Free(r)
  /\ \E o \in world :
       /\ o.home \in Senders /\ ReportReads(o)
       /\ req' = [req EXCEPT ![r] = [pc |-> "report", obj |-> o, from |-> o.home]]
  /\ UNCHANGED <<db, said, wipes, world>>

\* The transaction: INSERT OR IGNORE under the UNIQUE post_id.
IgnoresSecond(d, o) == ~\E x \in d.reports : x.post = o.post
ReportInsert(r) ==
  /\ req[r].pc = "report"
  /\ LET o == req[r].obj
         d == store_signed_object(db, o)
     IN  db' = IF IgnoresSecond(d, o) THEN [d EXCEPT !.reports = @ \union {o}] ELSE d
  /\ req' = [req EXCEPT ![r] = Idle]
  /\ UNCHANGED <<said, wipes, world>>

-----------------------------------------------------------------------------
(* delete_room() of admin.rs: threads, posts and revisions of the room are *)
(* dropped; signed_objects is left alone.                                  *)
DeleteRoom ==
  /\ wipes < MaxWipes
  /\ \E room \in {o.room : o \in db.threads} :
       LET ts == {o \in db.threads : o.room = room}
           rs == {o \in db.revs : \E x \in ts : x.thread = o.thread}
       IN  db' = [db EXCEPT !.threads = @ \ ts, !.revs = @ \ rs, !.bound = @ \ rs, !.blank = @ \ rs,
                            !.posts = @ \ {o.post : o \in rs},
                            !.retracted = @ \ {o.post : o \in rs},
                            !.count = [p \in Posts |-> IF p \in {o.post : o \in rs} THEN 0 ELSE @[p]]]
  /\ wipes' = wipes + 1
  /\ UNCHANGED <<req, said, world>>

ContentNext ==
  \/ \E r \in Requests : Receive(r) \/ Check(r) \/ Apply(r) \/ ReportCheck(r) \/ ReportInsert(r)
  \/ DeleteRoom

ContentSpec == ContentInit /\ [][ContentNext]_contentVars

-----------------------------------------------------------------------------
(* Properties.                                                             *)

\* The tables, the requests and the answers have their types.
TypeOK ==
  /\ db \in DB
  /\ \A r \in Requests : req[r] = Idle
       \/ /\ req[r].pc \in {"checked", "tx", "report"}
          /\ req[r].obj \in Objs /\ req[r].from \in Senders
  /\ said \subseteq Objs /\ wipes \in 0..MaxWipes /\ world \subseteq Objs

\* Whatever the order in which an author's profile, a thread and its opening
\* post arrive (content.rs: "the two converge regardless of arrival order"),
\* once all three are stored the thread and the post have their rows.  A room
\* that was deleted meanwhile is the exception.
OpConverges ==
  \A t \in Objs, o \in PostRevs :
    (/\ wipes = 0 /\ t.cls = "thread-create" /\ db.stored[t] # "absent"
     /\ o.thread = t.thread /\ o.author = t.author /\ o.rev = 0 /\ o.parent = NoPost
     /\ db.stored[o] = "live" /\ Stub(db, t.author))
    => t \in db.threads /\ o \in db.revs

\* revision_count is one more than the highest revision that has a row, however
\* revisions overtake each other on the way.
CountIsHighWater ==
  \A p \in db.posts :
    db.count[p] = 1 + Max({o.rev : o \in {x \in db.revs : x.post = p}})

\* Erased bytes never come back and keep the authority that erased them first,
\* although a request that read "not stored" before the erasure still runs its
\* transaction after it, and a second authority may cover the same revision.
ErasureSticksStep ==
  \A o \in Objs : db.stored[o] = "erased"
    => db'.stored[o] = "erased" /\ db'.by[o] = db.by[o]

\* A sender drops an object from its queue once it is told "applied", and the
\* forwarder relays it: by then the bytes are stored, projected or not.
AckedIsStored == \A o \in said : db.stored[o] # "absent"

\* A revision whose bytes were erased by the author's deactivation is served
\* by no read path: its body is empty, its attachments are unbound and its
\* post is retracted, also when another delivery of it was in flight.
DeactivatedIsDark ==
  \A o \in db.revs :
    (\E auth \in db.by[o] : auth.cls = "deactivate")
    => o \in db.blank /\ o \notin db.bound /\ o.post \in db.retracted

\* The advisory queue holds one report for a post, whoever reports first.
OneReportPerPost == \A x, y \in db.reports : x.post = y.post => x = y

\* A federation receive never adds posts for an author who is homed here.
LocalNotProjected == \A o \in db.revs \union db.threads : o.author \notin Local

=============================================================================
