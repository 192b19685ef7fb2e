-------------------------- MODULE FederationSuite ---------------------------
(***************************************************************************)
(* What an instance keeps of the users and the posts of others, one        *)
(* component per behaviour: moves and homes (Moves), statuses (Status),    *)
(* registration with a prior home (Registration), received content         *)
(* (RemoteContent), recovery of an author (Recovery).                      *)
(***************************************************************************)
EXTENDS Moves, Status, Registration, TLC

VARIABLES
  part,                                \* the component that runs in this behaviour
  db, req, said, wipes, world,
  stock, changes, got, job, claims, woken, graph, missed

\* Six declarations of one key: a birth here, moves that tie and cross, another birth time.
Mv(hash, from, to, at, prior) ==
  [hash |-> hash, from |-> from, to |-> to, at |-> at, prior |-> prior, gen |-> 0]
MCMoves == {Mv(5, "none", "s", 0, 0), Mv(3, "s", "a", 1, 5), Mv(2, "s", "b", 1, 0),
            Mv(4, "a", "s", 2, 0), Mv(1, "a", "b", 3, 3), [Mv(6, "b", "a", 2, 0) EXCEPT !.gen = 1]}
MCNoMove == Mv(0, "none", "none", 0, 0)

\* Two admins at the old home and one at the new; pushes to r and to the new home.
MCIssuerAt == [i1 |-> "h", i2 |-> "h", j1 |-> "g"]
MCPushAt == [p |-> "r", s |-> "g"]

MCRecent == <<"p", "q">>

-----------------------------------------------------------------------------
(* Four loads of objects for one thread.                                   *)

Signed(cls, author, post, rev) ==
  [cls |-> cls, author |-> author, post |-> post, thread |-> "t", rev |-> rev,
   parent |-> "none", room |-> "r", home |-> "h", valid |-> TRUE]

Base == {Signed("profile", "a", "none", 0), Signed("thread-create", "a", "none", 0),
         Signed("post-rev", "a", "p", 0)}
Edits == {Signed("post-rev", "a", "p", 1), Signed("post-rev", "a", "p", 2)}
Reply == [Signed("post-rev", "b", "q", 0) EXCEPT !.parent = "p"]
Removals == {Signed("admin-rm", "a", "p", 0), [Signed("admin-rm", "a", "p", 0) EXCEPT !.home = "m"]}

Loads ==
  {Base \union Edits,
   Base \union {Signed("retract", "a", "p", 0), Signed("deactivate", "a", "none", 0)},
   Base \union Removals,
   Base \union {Reply, Signed("profile", "b", "none", 0), Signed("post-rev", "l", "q", 0)}}
AllObjs == UNION Loads

Content == INSTANCE RemoteContent WITH
  Objs <- AllObjs, Scenarios <- Loads, Keys <- {"a", "b", "l"}, Local <- {"l"},
  Posts <- {"p", "q"}, NoPost <- "none", Senders <- {"h", "m"},
  Requests <- {1, 2}, MaxReports <- 2, MaxWipes <- 1
contentVars == <<db, req, said, wipes, world>>

-----------------------------------------------------------------------------
(* The history of K, at home and at a peer.                                *)

ByHandshake == <<"peer", "home">>
\* K registers; S trusts K.
MCObj == <<[class |-> "profile", by |-> "K", to |-> "none"],
           [class |-> "edge",    by |-> "S", to |-> "K"],
           [class |-> "post",    by |-> "K", to |-> "none"],
           [class |-> "profile", by |-> "S", to |-> "none"],
           [class |-> "thread",  by |-> "K", to |-> "none"]>>
\* Either source may hold the profile of S; the history of K is at home and, in
\* the second case, at the peer as well.
MCStocks == {[home |-> <<0, 0, 0, -1, 0>>, peer |-> <<-1, 1, -1, 0, -1>>],
             [home |-> <<0, 1, 1, 0, -1>>, peer |-> <<0, 0, 0, -1, -1>>]}

Recover == INSTANCE Recovery WITH
  Objs <- {1, 2, 3, 4, 5}, Obj <- MCObj, Sources <- {"home", "peer"},
  Recent <- ByHandshake, Prior <- "home", Stocks <- MCStocks, Subject <- "K",
  Pulls <- {1, 2}, Limit <- 1, PageCap <- 3, Slots <- 1, Throttles <- 1,
  FallbackMax <- 1, MaxChanges <- 1
recVars == <<stock, changes, got, job, claims, woken, graph, missed>>

-----------------------------------------------------------------------------
(* One component runs; the others rest.                                    *)

Off == "off"
MovesOff == MovesInit /\ known = {}
StatusOff == StatusInit /\ topic = "user" /\ ~rising
RegistrationOff == RegInit
ContentOff ==
  /\ db = Off /\ req = Off /\ said = Off /\ wipes = Off /\ world = Off
RecoveryOff ==
  /\ stock = Off /\ changes = Off /\ got = Off /\ job = Off /\ claims = Off
  /\ woken = Off /\ graph = Off /\ missed = Off

FederationInit ==
  \/ part = "moves" /\ MovesInit
     /\ StatusOff /\ RegistrationOff /\ ContentOff /\ RecoveryOff
  \/ part = "status" /\ StatusInit
     /\ MovesOff /\ RegistrationOff /\ ContentOff /\ RecoveryOff
  \/ part = "registration" /\ RegInit
     /\ MovesOff /\ StatusOff /\ ContentOff /\ RecoveryOff
  \/ part = "content" /\ Content!ContentInit
     /\ MovesOff /\ StatusOff /\ RegistrationOff /\ RecoveryOff
  \/ part = "recovery" /\ Recover!RecInit
     /\ MovesOff /\ StatusOff /\ RegistrationOff /\ ContentOff

FederationNext ==
  \/ part = "moves" /\ MovesNext
     /\ UNCHANGED <<part, statusVars, regVars, contentVars, recVars>>
  \/ part = "status" /\ StatusNext
     /\ UNCHANGED <<part, moveVars, regVars, contentVars, recVars>>
  \/ part = "registration" /\ RegNext
     /\ UNCHANGED <<part, moveVars, statusVars, contentVars, recVars>>
  \/ part = "content" /\ Content!ContentNext
     /\ UNCHANGED <<part, moveVars, statusVars, regVars, recVars>>
  \/ part = "recovery" /\ Recover!RecNext
     /\ UNCHANGED <<part, moveVars, statusVars, regVars, contentVars>>

FederationVars == <<part, moveVars, statusVars, regVars, contentVars, recVars>>
FederationSpec == FederationInit /\ [][FederationNext]_FederationVars

-----------------------------------------------------------------------------
(* What the components promise, each in its own behaviours.                *)

\* In whatever order, however often and in however many requests at once objects
\* arrive: a thread and its opening post are projected once the author is known, until
\* the room is deleted; the count is the highest revision; what was acknowledged is
\* stored; a post has one report; and no post of a local user is projected.
ContentConverges ==
  part = "content" =>
    /\ Content!TypeOK /\ Content!OpConverges /\ Content!CountIsHighWater
    /\ Content!AckedIsStored /\ Content!OneReportPerPost
    /\ Content!LocalNotProjected

\* Erased bytes never come back and keep the authority that erased them first, although
\* a request that read "not stored" before still runs its transaction; a revision that
\* a deactivation erased is served by no read path.
ErasureStands ==
  /\ [](part = "content" => Content!DeactivatedIsDark)
  /\ [][part = "content" => Content!ErasureSticksStep]_FederationVars

\* A walk that reports complete brought every row served all through it, a backfill
\* that counts as successful left the author hydrated, the peer that delivered the edge
\* is asked, the edges on a pulled author surface, and at most one pull per author and
\* a bounded number of streams per peer run at a time.
RecoveryIsComplete ==
  part = "recovery" =>
    /\ Recover!RecTypeOK /\ Recover!CompleteMeansAll /\ Recover!OnePullPerAuthor
    /\ Recover!PeerStreamsBounded /\ Recover!FoundMeansHydrated
    /\ Recover!DelivererAsked /\ Recover!PulledEdgesSurface
=============================================================================
