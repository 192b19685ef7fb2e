------------------------------- MODULE Status -------------------------------
(***************************************************************************)
(* Signed moderation status (server/src/federation/user_status.rs and      *)
(* thread_status.rs): the home instance of a user or a thread issues a     *)
(* chain of statuses, every other instance receives them in any order,     *)
(* perhaps twice, perhaps never, and keeps the latest.  The user moves     *)
(* from one home to another meanwhile; a thread never does.                *)
(***************************************************************************)
EXTENDS Integers, Sequences

CONSTANTS
  Nodes,      \* instances
  OldHome,    \* home of the thread, and of the user until the move
  NewHome,
  MovedAt,    \* created_at of the user's move
  Issuers,    \* admin requests that issue, each on the instance IssuerAt gives
  IssuerAt,
  Pushes,     \* push requests being served, each on the instance PushAt gives
  PushAt,
  MaxNow,     \* bound on the clock
  MaxIssued   \* bound on the number of objects issued

VARIABLES
  clock,
  object,   \* objects issued, in the order of their issue
  has,      \* per instance its signed_objects
  head,     \* per instance user_statuses / thread_statuses: the current object
  locked,   \* per instance threads.locked
  knows,    \* per instance which of the users row, the threads row, the move it has
  draft,    \* per issuer the status being issued
  push,     \* per push request the object past the duplicate check
  topic,    \* what is moderated in this behaviour: the chains do not touch each other
  rising    \* whether later objects have the larger hashes

statusVars == <<topic, rising, clock, object, has, head, locked, knows, draft, push>>

Subjects == {"user", "thread"}
None == 0
NoDraft == [pc |-> "idle", locks |-> FALSE, at |-> 0]
Hash(o) == IF rising THEN o ELSE -o
Objects == 1..Len(object)

StatusInit ==
  /\ topic \in Subjects /\ rising \in BOOLEAN
  /\ clock = 0 /\ object = <<>>
  /\ has = [n \in Nodes |-> {}]
  /\ head = [n \in Nodes |-> [s \in Subjects |-> None]]
  /\ locked = [n \in Nodes |-> FALSE]
  /\ knows = [n \in Nodes |-> IF n = OldHome THEN {"user", "thread"} ELSE {}]
  /\ draft = [i \in Issuers |-> NoDraft] /\ push = [p \in Pushes |-> None]

-----------------------------------------------------------------------------
(* Who may issue.                                                          *)

\* resolve_home_at_t(): the move counts from its own time on.
HomeAt(n, t) == IF "move" \in knows[n] /\ t >= MovedAt THEN NewHome ELSE OldHome
\* resolve_subject_home_at_t(): nothing is known without a move or a users row.
UserKnown(n) == knows[n] \intersect {"user", "move"} # {}
\* The thread's home is fixed; the user's is that of the time of the object.
AuthorityOf(n, o) == IF object[o].subj = "thread" THEN OldHome ELSE HomeAt(n, object[o].at)
Authorised(n, o) == object[o].by = AuthorityOf(n, o)
\* users.home_instance is NULL: it follows the moves the instance knows of.
HomedHere(n) == UserKnown(n) /\ n = IF "move" \in knows[n] THEN NewHome ELSE OldHome

-----------------------------------------------------------------------------
(* Issuing.                                                                *)

\* Sign, store and advance the own head, in one transaction; the object can then be
\* forwarded.
Issue(n, s, locks, at) ==
  /\ Len(object) < MaxIssued
  /\ object' = Append(object, [subj |-> s, by |-> n, at |-> at, prior |-> head[n][s], locks |-> locks])
  /\ has' = [has EXCEPT ![n] = @ \union {Len(object) + 1}]
  /\ head' = [head EXCEPT ![n][s] = Len(object) + 1]

\* ban_user(), unban_user(), suspend_user(), unsuspend_user(): the committed decision
\* goes to dispatch_local_user_status(), which takes the time before it has the lock.
\* Which status it is makes no difference to the chain.
UserModerated(i) ==
  LET n == IssuerAt[i] IN
  /\ topic = "user" /\ draft[i].pc = "idle" /\ HomedHere(n) /\ Len(object) < MaxIssued
  /\ draft' = [draft EXCEPT ![i] = [pc |-> "stamped", locks |-> FALSE, at |-> clock]]
  /\ UNCHANGED <<topic, rising, clock, object, has, head, locked, knows, push>>

UserStatusCommits(i) ==
  /\ draft[i].pc = "stamped"
  /\ Issue(IssuerAt[i], "user", draft[i].locks, draft[i].at)
  /\ draft' = [draft EXCEPT ![i] = NoDraft]
  /\ UNCHANGED <<topic, rising, clock, locked, knows, push>>

\* lock_thread(), unlock_thread(): the column is set by itself.
ThreadModerated(i) ==
  LET n == IssuerAt[i] IN
  /\ topic = "thread" /\ draft[i].pc = "idle" /\ n = OldHome /\ Len(object) < MaxIssued
  /\ locked' = [locked EXCEPT ![n] = ~@]
  /\ draft' = [draft EXCEPT ![i] = [pc |-> "set", locks |-> ~locked[n], at |-> 0]]
  /\ UNCHANGED <<topic, rising, clock, object, has, head, knows, push>>

\* dispatch_local_thread_status() takes the time with the write lock held.
ThreadStatusCommits(i) ==
  /\ draft[i].pc = "set"
  /\ Issue(IssuerAt[i], "thread", draft[i].locks, clock)
  /\ draft' = [draft EXCEPT ![i] = NoDraft]
  /\ UNCHANGED <<topic, rising, clock, locked, knows, push>>

\* The dispatch is best effort: its failure is logged and the decision stands.
DispatchFails(i) ==
  /\ draft[i].pc # "idle"
  /\ draft' = [draft EXCEPT ![i] = NoDraft]
  /\ UNCHANGED <<topic, rising, clock, object, has, head, locked, knows, push>>

-----------------------------------------------------------------------------
(* Receiving.                                                              *)

\* A copy arrives from some instance that holds the object; one already stored is a
\* duplicate.
PushArrives(p, o) ==
  LET n == PushAt[p] IN
  /\ push[p] = None /\ o \in Objects \ has[n]
  /\ \E m \in Nodes \ {n} : o \in has[m]
  /\ push' = [push EXCEPT ![p] = o]
  /\ UNCHANGED <<topic, rising, clock, object, has, head, locked, knows, draft>>

\* Latest wins, and among equals the smaller hash.
Wins_Reversed(o, cur) ==
  \/ cur = None \/ object[o].at > object[cur].at
  \/ object[o].at = object[cur].at /\ Hash(o) > Hash(cur)
Wins(o, cur) ==
  \/ cur = None \/ object[o].at > object[cur].at
  \/ object[o].at = object[cur].at /\ Hash(o) < Hash(cur)

SubjectKnown(n, o) == IF object[o].subj = "thread" THEN "thread" \in knows[n] ELSE UserKnown(n)
PriorHeld(n, o) == object[o].prior # None => object[o].prior \in has[n]
LockAfter(n, o) ==
  IF object[o].subj = "thread" /\ Wins(o, head[n]["thread"]) THEN object[o].locks ELSE locked[n]

\* apply_one_user_status(), apply_one_thread_status() from the transaction on: an
\* object of unknown subject, of the wrong home or without its predecessor is answered
\* and forgotten; any other is stored, and becomes the head if it wins.
PushCommits(p) ==
  LET n == PushAt[p]
      o == push[p]
      s == object[o].subj
      takes == SubjectKnown(n, o) /\ Authorised(n, o) /\ PriorHeld(n, o)
  IN /\ o # None
     /\ has' = [has EXCEPT ![n] = IF takes THEN @ \union {o} ELSE @]
     /\ head' = [head EXCEPT ![n][s] = IF takes /\ Wins(o, @) THEN o ELSE @]
     /\ locked' = [locked EXCEPT ![n] = IF takes THEN LockAfter(n, o) ELSE @]
     /\ push' = [push EXCEPT ![p] = None]
     /\ UNCHANGED <<topic, rising, clock, object, knows, draft>>

-----------------------------------------------------------------------------
(* Around it.                                                              *)

\* A profile, a thread or the move reaches an instance; the move exists from its time
\* on and the new home is the first to have it.
Learn(n, what) ==
  /\ what \notin knows[n] /\ (what = "thread" <=> topic = "thread")
  /\ what = "user" => n # NewHome
  /\ what = "move" => clock >= MovedAt /\ (n = NewHome \/ "move" \in knows[NewHome])
  /\ knows' = [knows EXCEPT ![n] = @ \union {what}]
  /\ UNCHANGED <<topic, rising, clock, object, has, head, locked, draft, push>>

ClockTicks == clock < MaxNow /\ clock' = clock + 1 /\ UNCHANGED <<topic, rising, object, has, head, locked, knows, draft, push>>

StatusNext ==
  \/ \E i \in Issuers : \/ UserModerated(i) \/ UserStatusCommits(i) \/ ThreadModerated(i)
                        \/ ThreadStatusCommits(i) \/ DispatchFails(i)
  \/ \E p \in Pushes : PushCommits(p) \/ \E o \in Objects : PushArrives(p, o)
  \/ \E n \in Nodes, what \in {"user", "thread", "move"} : Learn(n, what)
  \/ ClockTicks

StatusSpec == StatusInit /\ [][StatusNext]_statusVars

-----------------------------------------------------------------------------
(* Properties.                                                             *)

Of(n, s) == {o \in has[n] : object[o].subj = s}
Latest(S) == CHOOSE o \in S : \A x \in S \ {o} :
  \/ object[o].at > object[x].at
  \/ object[o].at = object[x].at /\ Hash(o) < Hash(x)

\* An instance that issued none of the statuses it holds of a subject has the latest of
\* them as the head, in whatever order and however often they came: instances that hold
\* the same objects agree.  (The issuer's own head is the one it committed last.)
HeadIsLatest ==
  \A n \in Nodes, s \in Subjects :
    Of(n, s) # {} /\ (\A o \in Of(n, s) : object[o].by # n) => head[n][s] = Latest(Of(n, s))

\* Every chain held is whole: with an object goes its predecessor, of the same subject.
ChainHeldWhole ==
  \A n \in Nodes : \A o \in has[n] :
    object[o].prior # None => object[o].prior \in has[n] /\ object[object[o].prior].subj = object[o].subj

\* "the handler mirrors the resolved lock state into threads.locked": away from its home
\* a thread is locked exactly when its latest status says so.
LockMirrorsHead ==
  \A n \in Nodes \ {OldHome} : topic = "thread" =>
    (locked[n] <=> head[n]["thread"] # None /\ object[head[n]["thread"]].locks)

\* Instances that hold the same statuses agree: whole chains, the latest as the head, and
\* the lock the head says.
StatusConverges == ChainHeldWhole /\ HeadIsLatest /\ LockMirrorsHead
=============================================================================
