------------------------------ MODULE Reports ------------------------------
(***************************************************************************)
(* Reports of one post, from the reporter's home ("here") to the queue of  *)
(* the home of the post's author: the local table reports, or, relayed     *)
(* through the outbound queue, federated_reports at the other instance     *)
(* (reports.rs, federation/reports.rs).  The author may move meanwhile;    *)
(* each instance learns of the move in its own time, in one transaction    *)
(* that keeps users.home_instance and user_homes together.                 *)
(*                                                                         *)
(* A queue is a sequence of rows, so that two rows of one reporter can be  *)
(* told apart.  What create_report reads, checks and writes are separate   *)
(* steps on the pool, and so are apply_one_report's.  The relay delivers a *)
(* message until it is answered, or gives it up.                           *)
(***************************************************************************)
EXTENDS Naturals, Sequences, FiniteSets

CONSTANTS
    Requests,       \* requests to report the post
    By,             \* Requests -> the reporter
    Deliveries,     \* the other instance's handlers
    MaxMoves        \* bound: moves of the author

VARIABLES
    home,           \* instance -> the author's home as it knows it
    moves,
    local,          \* reports here: <<[by, status]>>
    remote,         \* federated_reports there: reporters, in order
    ask,            \* per request: pc
    wire,           \* reporters whose report is on the wire
    hnd,            \* per handler: pc and reporter
    met,            \* reporters the other instance has on record as users of ours
    lost,           \* history: reporters with a report given up or turned away
    shifted         \* history: requests under way as the author came home here

repVars == <<home, moves, local, remote, ask, wire, hnd, met, lost, shifted>>

Reporters == {By[q] : q \in Requests}
Other(i) == IF i = "here" THEN "there" ELSE "here"

RepTypeOK ==
    /\ home \in [{"here", "there"} -> {"here", "there"}]
    /\ moves \in 0 .. MaxMoves
    /\ \A i \in DOMAIN local : /\ local[i].by \in Reporters
                               /\ local[i].status \in {"pending", "dismissed", "actioned"}
    /\ \A i \in DOMAIN remote : remote[i] \in Reporters
    /\ ask \in [Requests -> {"new", "local", "relay", "insert", "stored", "refused", "sent", "noop"}]
    /\ wire \subseteq Reporters
    /\ \A d \in Deliveries : hnd[d].pc \in {"idle", "insert"}
    /\ met \subseteq Reporters /\ lost \subseteq Reporters /\ shifted \subseteq Requests

RepInit ==
    /\ home \in {[i \in {"here", "there"} |-> h] : h \in {"here", "there"}}
    /\ moves = 0
    /\ local = <<>> /\ remote = <<>>
    /\ ask = [q \in Requests |-> "new"]
    /\ wire = {} /\ lost = {} /\ shifted = {}
    /\ met \in SUBSET Reporters
    /\ hnd = [d \in Deliveries |-> [pc |-> "idle", by |-> CHOOSE r \in Reporters : TRUE]]

\* An instance records that the author has moved (moves, at its own time).
Learns(i) ==
    /\ moves < MaxMoves
    /\ moves' = moves + 1
    /\ home' = [home EXCEPT ![i] = Other(@)]
    /\ shifted' = shifted \cup {q \in Requests : home'["here"] = "here" /\ ask[q] = "relay"}
    /\ UNCHANGED <<local, remote, ask, wire, hnd, met, lost>>

-----------------------------------------------------------------------------
(* create_report. *)

\* The post and its author's home_instance.
ReadPost(q) ==
    /\ ask[q] = "new"
    /\ ask' = [ask EXCEPT ![q] = IF home["here"] = "here" THEN "local" ELSE "relay"]
    /\ UNCHANGED <<home, moves, local, remote, wire, hnd, met, lost, shifted>>

Has(rows, r) == \E i \in DOMAIN rows : rows[i].by = r

CheckReported(q) ==
    /\ ask[q] = "local"
    /\ ask' = [ask EXCEPT ![q] = IF Has(local, By[q]) THEN "refused" ELSE "insert"]
    /\ UNCHANGED <<home, moves, local, remote, wire, hnd, met, lost, shifted>>

\* UNIQUE(post_id, reporter).
UniqueOk(r) == ~Has(local, r)

InsertReport(q) ==
    /\ ask[q] = "insert"
    /\ IF UniqueOk(By[q])
         THEN /\ local' = Append(local, [by |-> By[q], status |-> "pending"])
              /\ ask' = [ask EXCEPT ![q] = "stored"]
         ELSE /\ ask' = [ask EXCEPT ![q] = "refused"]
              /\ UNCHANGED local
    /\ UNCHANGED <<home, moves, remote, wire, hnd, met, lost, shifted>>

\* dispatch_local_report: resolve_current_home once more, sign, enqueue.
Dispatch(q) ==
    /\ ask[q] = "relay"
    /\ IF home["here"] = "here"
         THEN /\ ask' = [ask EXCEPT ![q] = "noop"]
              /\ UNCHANGED wire
         ELSE /\ ask' = [ask EXCEPT ![q] = "sent"]
              /\ wire' = wire \cup {By[q]}
    /\ UNCHANGED <<home, moves, local, remote, hnd, met, lost, shifted>>

\* "A dispatch failure must not fail the user's report": no key, or a database error.
DispatchFails(q) ==
    /\ ask[q] = "relay"
    /\ ask' = [ask EXCEPT ![q] = "noop"]
    /\ lost' = lost \cup {By[q]}
    /\ UNCHANGED <<home, moves, local, remote, wire, hnd, met, shifted>>

-----------------------------------------------------------------------------
(* apply_one_report, at the other instance. *)

Seen_AnyReporter(r) == remote # <<>>
Seen(r) == \E i \in DOMAIN remote : remote[i] = r

\* The reporter lives at the sender and the author here.
Authorised(r) == r \in met /\ home["there"] = "there"

\* unauthorized_reporter, wrong_recipient: answered, so not sent again.
TurnsAway(r) ==
    /\ r \in wire /\ ~Authorised(r)
    /\ wire' = wire \ {r} /\ lost' = lost \cup {r}
    /\ UNCHANGED <<home, moves, local, remote, ask, hnd, met, shifted>>

\* The early dedup finds the report, and the answer is Duplicate.
FindsDuplicate(r) ==
    /\ r \in wire /\ Authorised(r) /\ Seen(r)
    /\ wire' = wire \ {r}
    /\ UNCHANGED <<home, moves, local, remote, ask, hnd, met, lost, shifted>>

\* ... or nothing.
Accepts(d, r) ==
    /\ hnd[d].pc = "idle" /\ r \in wire
    /\ Authorised(r) /\ ~Seen(r)
    /\ hnd' = [hnd EXCEPT ![d] = [pc |-> "insert", by |-> r]]
    /\ UNCHANGED <<home, moves, local, remote, ask, wire, met, lost, shifted>>

\* INSERT OR IGNORE; the answer arrives or is lost.
Queued(r) == IF Seen(r) THEN remote ELSE Append(remote, r)

Queues(d) ==
    /\ hnd[d].pc = "insert"
    /\ remote' = Queued(hnd[d].by)
    /\ hnd' = [hnd EXCEPT ![d].pc = "idle"]
    /\ wire' \in {wire, wire \ {hnd[d].by}}
    /\ UNCHANGED <<home, moves, local, ask, met, lost, shifted>>

\* The outbound queue gives a message up: it is too old, or the queue is full.
GivesUp(r) ==
    /\ r \in wire
    /\ wire' = wire \ {r} /\ lost' = lost \cup {r}
    /\ UNCHANGED <<home, moves, local, remote, ask, hnd, met, shifted>>

-----------------------------------------------------------------------------
(* dismiss_report and action_report: every pending report of the post. *)

Closes(row) == row.status = "pending"

Resolve(verdict) ==
    /\ local # <<>>
    /\ local' = [i \in DOMAIN local |->
                    IF Closes(local[i]) THEN [local[i] EXCEPT !.status = verdict]
                    ELSE local[i]]
    /\ UNCHANGED <<home, moves, remote, ask, wire, hnd, met, lost, shifted>>

RepNext ==
    \/ \E i \in {"here", "there"} : Learns(i)
    \/ \E q \in Requests : ReadPost(q)
    \/ \E q \in Requests : CheckReported(q)
    \/ \E q \in Requests : InsertReport(q)
    \/ \E q \in Requests : Dispatch(q)
    \/ \E q \in Requests : DispatchFails(q)
    \/ \E r \in Reporters : TurnsAway(r)
    \/ \E r \in Reporters : FindsDuplicate(r)
    \/ \E d \in Deliveries, r \in Reporters : Accepts(d, r)
    \/ \E d \in Deliveries : Queues(d)
    \/ \E r \in Reporters : GivesUp(r)
    \/ \E v \in {"dismissed", "actioned"} : Resolve(v)

RepSpec == RepInit /\ [][RepNext]_repVars

-----------------------------------------------------------------------------

\* The report of r is in a queue or on its way to one.
Arrived(r) == \E i \in DOMAIN remote : remote[i] = r
Held(r) == \/ Has(local, r) \/ Arrived(r) \/ r \in wire
           \/ \E d \in Deliveries : hnd[d].pc = "insert" /\ hnd[d].by = r

\* A reporter who has an answer (201, or 409 for a second report) has a report in a
\* queue, here or at the author's home, or on its way; save when the relay gave it up
\* or the other instance turned it away, and save when the author came home between
\* the two looks at their home, which leaves the report stored nowhere.
NoReportVanishes ==
    \A q \in Requests :
      ask[q] \in {"stored", "refused", "sent", "noop"} =>
        Held(By[q]) \/ By[q] \in lost \/ q \in shifted

\* A reporter is counted once, in one of the two queues: by both only if the author
\* moved, for each queue has its own UNIQUE key.
CountedOnce ==
    /\ \A i, j \in DOMAIN local : local[i].by = local[j].by => i = j
    /\ \A i, j \in DOMAIN remote : remote[i] = remote[j] => i = j
    /\ \A r \in Reporters : Has(local, r) /\ Arrived(r) => moves > 0
=============================================================================
