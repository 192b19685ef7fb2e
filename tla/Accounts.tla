------------------------------ MODULE Accounts ------------------------------
(***************************************************************************)
(* Accounts of one instance: the ceremonies that make them and log them in *)
(* (server/src/auth.rs, setup.rs), sessions and the middleware every       *)
(* request passes (session.rs), invites (invites.rs), moderation           *)
(* (admin.rs), self-deletion (privacy.rs) and the signed acts of an        *)
(* account: a reply, a bio, a trust edge (threads/create_reply.rs,         *)
(* users.rs).  Every request is a process of several steps, one per await  *)
(* outside a transaction; a transaction is one step.  The federated        *)
(* user-status that follows a moderation step is the subject of Status.    *)
(***************************************************************************)
EXTENDS Integers, FiniteSets, FiniteSetsExt

CONSTANTS
  Name,       \* account id -> the display name it asks for
  Uses,       \* invite -> max_uses
  NoInvite,   \* NULL of users.invite_id
  Ceremony,   \* challenge -> [kind, who, inv]
  Call,       \* request -> [op, tok, on, cer, inv]
  Scenarios,  \* what there is at the start, and which requests run
  Duration,   \* SESSION_DURATION_DAYS
  Renewal,    \* RENEWAL_THRESHOLD_DAYS
  Life,       \* days until an invite expires
  Term,       \* days of a suspension
  LastDay     \* bound on the clock

VARIABLES
  day,
  acct,     \* users, with signing_keys.active
  invite,   \* invites
  chal,     \* auth_challenges
  sess,     \* sessions: [tok, who, until]
  trust,    \* trust_edges, as pairs
  call,     \* the requests of this behaviour
  fresh,    \* AppState.needs_setup
  crowd,    \* history: most signups ever between validation and birth, at least 1
  crossed   \* history: requests that had read an account before it was banned or deleted

acctVars == <<day, acct, invite, chal, sess, trust, call, fresh, crowd, crossed>>

Accts == DOMAIN Name
Codes == DOMAIN Uses
NoAcct == [here |-> FALSE, admin |-> FALSE, status |-> "active", until |-> 0, gone |-> FALSE,
           via |-> NoInvite, can |-> FALSE, key |-> FALSE, posts |-> FALSE, bio |-> FALSE]
Member == [NoAcct EXCEPT !.here = TRUE, !.can = TRUE, !.key = TRUE]
NoCode == [by |-> "none", open |-> FALSE, until |-> 0]

AcctInit ==
  /\ day = 0
  /\ \E s \in Scenarios :
       /\ acct = [a \in Accts |-> IF a \in DOMAIN s.acct THEN s.acct[a] ELSE NoAcct]
       /\ invite = [i \in Codes |-> IF i \in DOMAIN s.invite THEN s.invite[i] ELSE NoCode]
       /\ sess = s.sess /\ trust = s.trust
       /\ call = [c \in s.calls |-> [at |-> "new", who |-> "none", saw |-> {}]]
       /\ fresh = s.fresh
  /\ chal = [z \in {Call[c].cer : c \in DOMAIN call} \intersect DOMAIN Ceremony |-> "none"]
  /\ crowd = [i \in Codes |-> 1] /\ crossed = {}

Calls == DOMAIN call
Op(c) == Call[c].op
On(c) == Call[c].on
Who(c) == call[c].who
Cer(c) == Ceremony[Call[c].cer]
At(c, place) == call[c].at = place
Goes(c, place) == call' = [call EXCEPT ![c].at = place]
Ends(c) == Goes(c, "done")

-----------------------------------------------------------------------------
(* The tables.                                                             *)

Alive(a) == acct[a].here /\ ~acct[a].gone
\* The unique indexes on display_name and its skeleton; deletion renames the row.
NameFree(n) == \A a \in Accts : Alive(a) => Name[a] # n
\* invite_use_count() and invite_is_exhausted().
UseCount(i) == Cardinality({a \in Accts : acct[a].here /\ acct[a].via = i})
Exhausted(i) == UseCount(i) >= Uses[i]
\* validate_invite_for_signup().
Usable(i) == invite[i].open /\ ~Exhausted(i) /\ invite[i].until >= day
\* load_active_signing_key(), and the target check of sign_trust_edge().
HasKey(a) == acct[a].key
CanSign(a, b) == acct[a].key /\ ~acct[b].gone
Revoked(inv, who) == [i \in Codes |-> IF inv[i].by \in who THEN [inv[i] EXCEPT !.open = FALSE] ELSE inv[i]]
\* Requests that have read something of an account and still act on it.
Holding(who) ==
  {c \in Calls : /\ call[c].at \notin {"new", "done"}
                 /\ \/ Who(c) \in who \/ On(c) \in who \/ call[c].saw \intersect who # {}}

-----------------------------------------------------------------------------
(* Ceremonies: setup, signup, login by name, login by passkey (discover).  *)

\* setup_begin(), signup_begin(), login_begin().
MayBegin(z) ==
  LET k == Ceremony[z] IN
  \/ k.kind = "setup" /\ fresh /\ NameFree(Name[k.who])
  \/ k.kind = "signup" /\ NameFree(Name[k.who]) /\ Usable(k.inv)
  \/ k.kind = "login" /\ \E a \in Accts : Alive(a) /\ Name[a] = Name[k.who]
  \/ k.kind = "discover"
Begins(z) ==
  /\ chal[z] = "none" /\ MayBegin(z)
  /\ chal' = [chal EXCEPT ![z] = "open"]
  /\ UNCHANGED <<day, acct, invite, sess, trust, call, fresh, crowd, crossed>>

\* The challenge is read, and deleted by a statement of its own.
Takes(c) ==
  /\ At(c, "new") /\ Op(c) = "complete"
  /\ chal[Call[c].cer] # "none"
  /\ Goes(c, IF chal[Call[c].cer] = "open" /\ (Cer(c).kind = "setup" => fresh) THEN "took" ELSE "done")
  /\ UNCHANGED <<day, acct, invite, chal, sess, trust, fresh, crowd, crossed>>
Consumes(c) ==
  /\ At(c, "took")
  /\ chal' = [chal EXCEPT ![Call[c].cer] = "spent"]
  /\ \/ Goes(c, "vet") \/ Ends(c)     \* the authenticator's answer verifies, or not
  /\ UNCHANGED <<day, acct, invite, sess, trust, fresh, crowd, crossed>>

InCrowd(i) == {c \in Calls : At(c, "birth") /\ Cer(c).inv = i}
\* login_complete() finds the account by its name, discover_complete() by its id.
Named(k) == {a \in Accts : Alive(a) /\ IF k.kind = "discover" THEN a = k.who ELSE Name[a] = Name[k.who]}
\* What stands between the ceremony and the transaction: is there an admin already, is
\* the invite still good, whose account is it.
Vets(c) ==
  LET k == Cer(c)
      logs == k.kind \in {"login", "discover"}
      ok == CASE k.kind = "setup" -> \A a \in Accts : ~acct[a].admin
              [] k.kind = "signup" -> Usable(k.inv)
              [] OTHER -> Named(k) # {}
  IN /\ At(c, "vet")
     /\ call' = [call EXCEPT ![c] =
          [@ EXCEPT !.at = CASE ~ok -> "done" [] k.kind = "login" -> "open" [] k.kind = "discover" -> "confirm"
                             [] OTHER -> "birth",
                    !.who = IF logs /\ ok THEN CHOOSE a \in Named(k) : TRUE ELSE k.who]]
     /\ crowd' = IF k.kind = "signup" /\ ok
                 THEN [crowd EXCEPT ![k.inv] = Max({@, Cardinality(InCrowd(k.inv)) + 1})] ELSE crowd
     /\ fresh' = IF k.kind = "setup" /\ ~ok THEN FALSE ELSE fresh
     /\ UNCHANGED <<day, acct, invite, chal, sess, trust, crossed>>

\* discover_complete() verifies against the credentials the account has by then.
Confirms(c) ==
  /\ At(c, "confirm")
  /\ Goes(c, IF Alive(Who(c)) THEN "open" ELSE "done")
  /\ UNCHANGED <<day, acct, invite, chal, sess, trust, fresh, crowd, crossed>>

\* complete_local_user_birth() in one transaction with the invite and, for a signup, the
\* two trust edges with the inviter, who must have an active key and not be deleted; any
\* failure rolls all of it back.
Births(c) ==
  LET k == Cer(c)
      by == IF k.kind = "signup" THEN invite[k.inv].by ELSE "none"
      ok == /\ ~acct[k.who].here /\ NameFree(Name[k.who])
            /\ k.kind = "signup" => CanSign(by, by)
  IN /\ At(c, "birth")
     /\ acct' = IF ok THEN [acct EXCEPT ![k.who] =
                              [Member EXCEPT !.admin = k.kind = "setup",
                                             !.via = IF k.kind = "signup" THEN k.inv ELSE NoInvite]]
                ELSE acct
     /\ trust' = IF ok /\ k.kind = "signup" THEN trust \union {<<by, k.who>>, <<k.who, by>>} ELSE trust
     /\ Goes(c, IF ~ok THEN "done" ELSE IF k.kind = "setup" THEN "settle" ELSE "open")
     /\ UNCHANGED <<day, invite, chal, sess, fresh, crowd, crossed>>

\* setup_complete() clears the flag after the commit.
Settles(c) ==
  /\ At(c, "settle")
  /\ fresh' = FALSE /\ Goes(c, "open")
  /\ UNCHANGED <<day, acct, invite, chal, sess, trust, crowd, crossed>>

\* create_session().
Opens(c) ==
  /\ At(c, "open")
  /\ sess' = sess \union {[tok |-> c, who |-> Who(c), until |-> day + Duration]}
  /\ Ends(c)
  /\ UNCHANGED <<day, acct, invite, chal, trust, fresh, crowd, crossed>>

-----------------------------------------------------------------------------
(* Requests: the session middleware, then the handler.                     *)

\* The row of session_middleware(): the join drops deleted users.
Hydrates_Any(s) == acct[s.who].here
Hydrates(s) == acct[s.who].here /\ ~acct[s.who].gone
\* Moderation needs an active admin, DELETE /api/me takes any session
\* (RestrictedAuthUser), everything else an active account (AuthUser).
Moderation == {"ban", "banTree", "unban", "suspend", "unsuspend", "grant", "revoke", "remove"}
Admits(c, s, status) ==
  /\ s.until >= day
  /\ Op(c) = "leave" \/ status = "active"
  /\ Op(c) \in Moderation => acct[s.who].admin

\* The middleware reads the session and the account, and renews the session; a
\* suspension that has run out is lifted by a statement of its own.
Enters(c) ==
  /\ At(c, "new") /\ Op(c) # "complete"
  /\ \E s \in sess :
       /\ s.tok = Call[c].tok /\ Hydrates(s)
       /\ LET a == acct[s.who]
              over == a.status = "suspended" /\ a.until < day
              status == IF over THEN "active" ELSE a.status
              place == IF Admits(c, s, status) THEN "in" ELSE "done"
          IN /\ call' = [call EXCEPT ![c] = [at |-> IF over THEN "lift" ELSE place, who |-> s.who,
                                             saw |-> IF place = "in" THEN {s.who} ELSE {}]]
             /\ sess' = IF s.until >= day /\ s.until - day < Renewal
                        THEN (sess \ {s}) \union {[s EXCEPT !.until = day + Duration]} ELSE sess
  /\ UNCHANGED <<day, acct, invite, chal, trust, fresh, crowd, crossed>>
Refused(c) ==
  /\ At(c, "new") /\ Op(c) # "complete"
  /\ \A s \in sess : s.tok = Call[c].tok => ~Hydrates(s)
  /\ Ends(c)
  /\ UNCHANGED <<day, acct, invite, chal, sess, trust, fresh, crowd, crossed>>

SetStatus(a, st, t) == acct' = [acct EXCEPT ![a].status = st, ![a].until = t]
Lifts(c) ==
  /\ At(c, "lift")
  /\ SetStatus(Who(c), "active", 0)
  /\ Goes(c, IF call[c].saw = {} THEN "done" ELSE "in")
  /\ UNCHANGED <<day, invite, chal, sess, trust, fresh, crowd, crossed>>

\* create_invite(): the privilege is read, then the row is inserted.
InviteChecks(c) ==
  /\ At(c, "in") /\ Op(c) = "invite"
  /\ Goes(c, IF acct[Who(c)].can THEN "add" ELSE "done")
  /\ UNCHANGED <<day, acct, invite, chal, sess, trust, fresh, crowd, crossed>>
InviteAdds(c) ==
  /\ At(c, "add")
  /\ invite' = [invite EXCEPT ![Call[c].inv] = [by |-> Who(c), open |-> TRUE, until |-> day + Life]]
  /\ Ends(c)
  /\ UNCHANGED <<day, acct, chal, sess, trust, fresh, crowd, crossed>>
\* revoke_invite(): only the creator's, and only while it is open.
InviteCloses(c) ==
  LET i == Call[c].inv IN
  /\ At(c, "in") /\ Op(c) = "close"
  /\ invite' = IF invite[i].by = Who(c) THEN [invite EXCEPT ![i].open = FALSE] ELSE invite
  /\ Ends(c)
  /\ UNCHANGED <<day, acct, chal, sess, trust, fresh, crowd, crossed>>

\* create_reply(): the revision is signed on the pool, then stored in a transaction.
ReplySigns(c) ==
  /\ At(c, "in") /\ Op(c) = "reply"
  /\ Goes(c, IF HasKey(Who(c)) THEN "store" ELSE "done")
  /\ UNCHANGED <<day, acct, invite, chal, sess, trust, fresh, crowd, crossed>>
ReplyStores(c) ==
  /\ At(c, "store")
  /\ acct' = [acct EXCEPT ![Who(c)].posts = TRUE]
  /\ Ends(c)
  /\ UNCHANGED <<day, invite, chal, sess, trust, fresh, crowd, crossed>>

\* update_bio(): the row, the signing key and the revision in one transaction.
BioCommits(c) ==
  /\ At(c, "in") /\ Op(c) = "bio"
  /\ acct' = IF HasKey(Who(c)) THEN [acct EXCEPT ![Who(c)].bio = TRUE] ELSE acct
  /\ Ends(c)
  /\ UNCHANGED <<day, invite, chal, sess, trust, fresh, crowd, crossed>>

\* set_trust_edge(): the target is resolved, then the edge is signed and stored in one
\* transaction.
TrustResolves(c) ==
  /\ At(c, "in") /\ Op(c) = "trust"
  /\ Goes(c, IF Alive(On(c)) THEN "edge" ELSE "done")
  /\ UNCHANGED <<day, acct, invite, chal, sess, trust, fresh, crowd, crossed>>
TrustCommits(c) ==
  /\ At(c, "edge")
  /\ trust' = IF CanSign(Who(c), On(c)) THEN trust \union {<<Who(c), On(c)>>} ELSE trust
  /\ Ends(c)
  /\ UNCHANGED <<day, acct, invite, chal, sess, fresh, crowd, crossed>>

\* logout().
LogsOut(c) ==
  /\ At(c, "in") /\ Op(c) = "logout"
  /\ sess' = {s \in sess : s.tok # Call[c].tok}
  /\ Ends(c)
  /\ UNCHANGED <<day, acct, invite, chal, trust, fresh, crowd, crossed>>

-----------------------------------------------------------------------------
(* Moderation: the target is fetched and checked on the pool, the change is *)
(* a transaction.                                                           *)

\* The early returns of the handlers after fetch_target_user().
Moderates(op, t) ==
  CASE op \in {"ban", "banTree"} -> ~t.admin /\ t.status # "banned"
    [] op = "unban" -> t.status = "banned"
    [] op = "suspend" -> ~t.admin /\ t.status \notin {"suspended", "banned"}
    [] op = "unsuspend" -> t.status = "suspended"
    [] op = "remove" -> ~t.admin /\ ~t.gone
    [] OTHER -> TRUE
Fetches(c) ==
  LET t == acct[On(c)] IN
  /\ At(c, "in") /\ Op(c) \in Moderation
  /\ call' = [call EXCEPT ![c] = [@ EXCEPT !.at = IF ~(t.here /\ Moderates(Op(c), t)) THEN "done"
                                               ELSE IF Op(c) = "banTree" THEN "tree" ELSE "commit",
                                         !.saw = {On(c)}]]
  /\ UNCHANGED <<day, acct, invite, chal, sess, trust, fresh, crowd, crossed>>

\* The recursive query over invites.created_by and users.invite_id.
Invited(by) == {a \in Accts : acct[a].here /\ acct[a].via \in {i \in Codes : invite[i].by \in by}}
Subtree(a) ==
  LET grow[n \in 0 .. Cardinality(Accts)] ==
        IF n = 0 THEN Invited({a}) ELSE grow[n - 1] \union Invited(grow[n - 1])
  IN grow[Cardinality(Accts)]
TreeReads(c) ==
  /\ At(c, "tree")
  /\ call' = [call EXCEPT ![c] = [@ EXCEPT !.at = "commit",
       !.saw = {On(c)} \union {a \in Subtree(On(c)) : acct[a].status # "banned" /\ ~acct[a].admin}]]
  /\ UNCHANGED <<day, acct, invite, chal, sess, trust, fresh, crowd, crossed>>

\* ban_user() keeps suspended_until; kill_sessions() and revoke_all_invites() for each.
BanCommits(c) ==
  LET set == call[c].saw IN
  /\ At(c, "commit") /\ Op(c) \in {"ban", "banTree"}
  /\ acct' = [a \in Accts |-> IF a \in set THEN [acct[a] EXCEPT !.status = "banned"] ELSE acct[a]]
  /\ sess' = {s \in sess : s.who \notin set}
  /\ invite' = Revoked(invite, set)
  /\ crossed' = crossed \union (Holding(set) \ {c})
  /\ Ends(c)
  /\ UNCHANGED <<day, chal, trust, fresh, crowd>>
SuspendCommits(c) ==
  /\ At(c, "commit") /\ Op(c) = "suspend"
  /\ SetStatus(On(c), "suspended", day + Term)
  /\ sess' = {s \in sess : s.who # On(c)}
  /\ invite' = Revoked(invite, {On(c)})
  /\ Ends(c)
  /\ UNCHANGED <<day, chal, trust, fresh, crowd, crossed>>
\* unban_user() keeps suspended_until, unsuspend_user() clears it.
RestoreCommits(c) ==
  /\ At(c, "commit") /\ Op(c) \in {"unban", "unsuspend"}
  /\ SetStatus(On(c), "active", IF Op(c) = "unban" THEN acct[On(c)].until ELSE 0)
  /\ Ends(c)
  /\ UNCHANGED <<day, invite, chal, sess, trust, fresh, crowd, crossed>>
\* admin_revoke_invites() and admin_grant_invites(): the open invites stay as they are.
PrivilegeCommits(c) ==
  /\ At(c, "commit") /\ Op(c) \in {"grant", "revoke"}
  /\ acct' = [acct EXCEPT ![On(c)].can = Op(c) = "grant"]
  /\ Ends(c)
  /\ UNCHANGED <<day, invite, chal, sess, trust, fresh, crowd, crossed>>

\* soft_delete_user(): every post retracted, the row anonymised, sessions, trust edges
\* and the profile dropped, invites revoked, signing keys deactivated.  The snapshot of
\* the transaction makes it atomic.
Erased(a) == [acct[a] EXCEPT !.gone = TRUE, !.status = "active", !.until = 0, !.can = FALSE,
                             !.key = FALSE, !.posts = FALSE, !.bio = FALSE]
DeleteCommits(c) ==
  LET a == IF Op(c) = "leave" THEN Who(c) ELSE On(c) IN
  /\ \/ At(c, "in") /\ Op(c) = "leave"
     \/ At(c, "commit") /\ Op(c) = "remove"
  /\ acct' = [acct EXCEPT ![a] = Erased(a)]
  /\ sess' = {s \in sess : s.who # a}
  /\ trust' = {e \in trust : a \notin {e[1], e[2]}}
  /\ invite' = Revoked(invite, {a})
  /\ crossed' = crossed \union (Holding({a}) \ {c})
  /\ Ends(c)
  /\ UNCHANGED <<day, chal, fresh, crowd>>

-----------------------------------------------------------------------------
(* The clock, and the hourly sweep.                                        *)

DayPasses ==
  /\ day < LastDay
  /\ day' = day + 1
  /\ UNCHANGED <<acct, invite, chal, sess, trust, call, fresh, crowd, crossed>>
\* cleanup_loop(): a stored time and the sweep's differ at the letter after the date, so
\* a row goes on the day after.
Sweeps ==
  /\ \E s \in sess : s.until < day
  /\ sess' = {s \in sess : s.until >= day}
  /\ UNCHANGED <<day, acct, invite, chal, trust, call, fresh, crowd, crossed>>
\* A challenge that was never completed.
SweepsChallenge(z) ==
  /\ chal[z] = "open"
  /\ chal' = [chal EXCEPT ![z] = "spent"]
  /\ UNCHANGED <<day, acct, invite, sess, trust, call, fresh, crowd, crossed>>

Requested(c) ==
  \/ Takes(c) \/ Consumes(c) \/ Vets(c) \/ Confirms(c) \/ Births(c) \/ Settles(c) \/ Opens(c)
  \/ Enters(c) \/ Refused(c) \/ Lifts(c) \/ InviteChecks(c) \/ InviteAdds(c) \/ InviteCloses(c)
  \/ ReplySigns(c) \/ ReplyStores(c) \/ BioCommits(c) \/ TrustResolves(c) \/ TrustCommits(c) \/ LogsOut(c)
  \/ Fetches(c) \/ TreeReads(c) \/ BanCommits(c) \/ SuspendCommits(c) \/ RestoreCommits(c)
  \/ PrivilegeCommits(c) \/ DeleteCommits(c)
AcctNext ==
  \/ \E z \in DOMAIN chal : Begins(z) \/ SweepsChallenge(z)
  \/ \E c \in Calls : Requested(c)
  \/ DayPasses \/ Sweeps
AcctSpec == AcctInit /\ [][AcctNext]_acctVars

-----------------------------------------------------------------------------
(* Properties.                                                             *)

\* Every table holds what its columns may hold.
AcctTypeOK ==
  /\ day \in 0 .. LastDay /\ fresh \in BOOLEAN
  /\ \A a \in Accts : /\ acct[a].status \in {"active", "suspended", "banned"}
                      /\ acct[a].via \in Codes \union {NoInvite} /\ acct[a].until \in 0 .. LastDay + Term
  /\ \A i \in Codes : invite[i].by \in Accts \union {"none"}
  /\ \A s \in sess : s.who \in Accts /\ s.until \in 0 .. LastDay + Duration
  /\ trust \subseteq Accts \X Accts /\ crossed \subseteq Calls

\* soft_delete_user() drops the edges of both directions, and no request brings one
\* back: not a signup with the deleted account's invite, nor a trust click that resolved
\* its target, or passed the middleware, before the deletion.
EdgesDieWithAccount == \A e \in trust : Alive(e[1]) /\ Alive(e[2])

\* What a deleted account still shows was written by a request of its own that had
\* signed it before the deletion: a later one finds no active key.
OnlyLatePosts ==
  \A a \in Accts : acct[a].gone =>
    /\ ~acct[a].bio
    /\ acct[a].posts => \E c \in crossed : Op(c) = "reply" /\ Who(c) = a

\* max_uses is exceeded at most by the signups that were in flight together between
\* validate_invite_for_signup() and their transaction.
InviteBound == \A i \in Codes : UseCount(i) <= Uses[i] + crowd[i] - 1

\* A ban ends by unban_user(), by the deletion of the account, or by a request that had
\* read the account before the ban.
BanStandsStep ==
  \A a \in Accts : acct[a].status = "banned" /\ acct'[a].status # "banned" =>
    \E c \in Calls : /\ call'[c] # call[c]
                     /\ Op(c) \in {"unban", "remove", "leave"} \/ c \in crossed

\* No request starts for an account deleted before it: not even with a session that a
\* login, resolved before the deletion, created after it.
DeletedNeverServedStep ==
  \A c \in Calls : At(c, "new") /\ call'[c].at \in {"in", "lift"} => ~acct[call'[c].who].gone

=============================================================================
