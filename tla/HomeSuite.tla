----------------------------- MODULE HomeSuite ------------------------------
(***************************************************************************)
(* What an instance does for its own users, one component per behaviour:   *)
(* the rate limits (RateLimits), the runtime configuration                 *)
(* (RuntimeConfig), accounts and sessions (Accounts), attachments          *)
(* (Attachments), favorite rooms (Favorites) and reports (Reports).        *)
(***************************************************************************)
EXTENDS RateLimits, RuntimeConfig, TLC

CONSTANTS r1, r2, r3, t1, t2
Symmetry == Permutations({t1, t2})

VARIABLES
  part,                                \* the component that runs in this behaviour
  day, acct, invite, chal, sess, trust, call, fresh, crowd, crossed,
  beat, blobs, staged, bound, pst, gone, fails, ask, sweep, uploaded, warm, passed,
  live, fav, tab, gapped,
  home, moves, local, remote, filing, wire, hnd, met, lost, shifted

\* Two PATCH requests that overlap, and two uploads.
MCStart == [f \in {"debounce", "min", "max", "cap", "refill", "url"} |->
              IF f \in {"min", "max", "cap"} THEN 2 ELSE 1]
MCBody == "a" :> ("debounce" :> 2 @@ "cap" :> 1)
       @@ "b" :> ("min" :> 1 @@ "url" :> 2 @@ "refill" :> 0)
MCSize == 1 :> 2 @@ 2 :> 1

-----------------------------------------------------------------------------
(* Fifteen sets of requests that run against each other.                   *)

ActiveUser == [here |-> TRUE, admin |-> FALSE, status |-> "active", until |-> 0, gone |-> FALSE,
           via |-> "no invite", can |-> TRUE, key |-> TRUE, posts |-> FALSE, bio |-> FALSE]
Ask(op, tok, on, cer, inv) == [op |-> op, tok |-> tok, on |-> on, cer |-> cer, inv |-> inv]
NameOf == [adm |-> "A", bdm |-> "B", u |-> "U", v |-> "V", w |-> "W"]
UsesOf == [i |-> 1, j |-> 1]
CeremonyOf ==
  [za |-> [kind |-> "setup", who |-> "adm", inv |-> "-"], zb |-> [kind |-> "setup", who |-> "bdm", inv |-> "-"],
   zv |-> [kind |-> "signup", who |-> "v", inv |-> "i"], zw |-> [kind |-> "signup", who |-> "w", inv |-> "i"],
   zx |-> [kind |-> "signup", who |-> "w", inv |-> "j"],
   zd |-> [kind |-> "discover", who |-> "u", inv |-> "-"], zu |-> [kind |-> "login", who |-> "u", inv |-> "-"]]
AcctCall ==
  [sa |-> Ask("complete", "-", "-", "za", "-"), sb |-> Ask("complete", "-", "-", "zb", "-"),
   sv |-> Ask("complete", "-", "-", "zv", "-"), sw |-> Ask("complete", "-", "-", "zw", "-"), s2 |-> Ask("complete", "-", "-", "zv", "-"),
   sx |-> Ask("complete", "-", "-", "zx", "-"), ld |-> Ask("complete", "-", "-", "zd", "-"), lu |-> Ask("complete", "-", "-", "zu", "-"),
   mk |-> Ask("invite", "tu", "-", "-", "i"), mj |-> Ask("invite", "tv", "-", "-", "j"), cl |-> Ask("close", "tu", "-", "-", "i"),
   re |-> Ask("reply", "tu", "-", "-", "-"), rl |-> Ask("reply", "lu", "-", "-", "-"), bi |-> Ask("bio", "tu", "-", "-", "-"),
   tr |-> Ask("trust", "tv", "u", "-", "-"), lo |-> Ask("logout", "tu", "-", "-", "-"),
   ban |-> Ask("ban", "ta", "u", "-", "-"), tree |-> Ask("banTree", "ta", "u", "-", "-"), un |-> Ask("unban", "ta", "u", "-", "-"),
   sus |-> Ask("suspend", "ta", "u", "-", "-"), uns |-> Ask("unsuspend", "ta", "u", "-", "-"),
   gr |-> Ask("grant", "ta", "u", "-", "-"), rv |-> Ask("revoke", "ta", "u", "-", "-"),
   rm |-> Ask("remove", "ta", "u", "-", "-"), lv |-> Ask("leave", "tu", "-", "-", "-")]

S0(calls) == [acct |-> <<>>, invite |-> <<>>, sess |-> {}, trust |-> {}, fresh |-> TRUE, calls |-> calls]
Tok(t, a) == [tok |-> t, who |-> a, until |-> 2]
S1(calls) == [acct |-> [adm |-> [ActiveUser EXCEPT !.admin = TRUE], u |-> ActiveUser],
              invite |-> [i |-> [by |-> "u", open |-> TRUE, until |-> 1]],
              sess |-> {Tok("ta", "adm"), Tok("tu", "u")}, trust |-> {}, fresh |-> FALSE, calls |-> calls]
S2(calls) == [S1(calls) EXCEPT
                !.acct = [adm |-> [ActiveUser EXCEPT !.admin = TRUE], u |-> ActiveUser, v |-> [ActiveUser EXCEPT !.via = "i"]],
                !.sess = @ \union {Tok("tv", "v")}, !.trust = {<<"u", "v">>, <<"v", "u">>}]
\* u's suspension ends on day 0; a session that outlived it.
S3(calls) == [S2(calls) EXCEPT !.acct = [@ EXCEPT !.u = [ActiveUser EXCEPT !.status = "suspended"]]]
AcctScenarios ==
  {S0({"sa", "sb"}), S1({"sv", "sw", "cl"}), S1({"sv", "s2", "lv"}), S1({"sv", "tree", "mk"}), S2({"lu", "lv", "rl"}),
   S2({"re", "rm", "tr"}), S2({"bi", "lv", "tr"}), S2({"mj", "sx", "tree"}), S3({"re", "ban", "lu"}), S2({"sus", "ban", "rv"}),
   S2({"sus", "un", "uns", "ban"}), S2({"gr", "rv", "mk"}), S2({"lo", "lu", "rl"}), S2({"ld", "lv", "lo"}), S3({"lu", "rl", "ban", "un"})}

People == INSTANCE Accounts WITH
  Name <- NameOf, Uses <- UsesOf, NoInvite <- "no invite",
  Ceremony <- CeremonyOf, Call <- AcctCall, Scenarios <- AcctScenarios,
  Duration <- 2, Renewal <- 1, Life <- 1, Term <- 1, LastDay <- 3
acctVars == <<day, acct, invite, chal, sess, trust, call, fresh, crowd, crossed>>

-----------------------------------------------------------------------------
(* Eight sets of requests on two files.                                    *)

FileAsk(op, by, post, files) == [op |-> op, by |-> by, post |-> post, files |-> files]
FileCall ==
  [upA |-> FileAsk("upload", "u", "p", {"a"}), upB |-> FileAsk("upload", "u", "p", {"b"}),
   vpA |-> FileAsk("upload", "v", "q", {"a"}),
   mkA |-> FileAsk("create", "u", "p", {"a"}), mkV |-> FileAsk("create", "v", "q", {"a"}),
   edB |-> FileAsk("edit", "u", "p", {"b"}), edA |-> FileAsk("edit", "u", "p", {"a"}),
   ret |-> FileAsk("retract", "u", "p", {}), rem |-> FileAsk("remove", "adm", "p", {}),
   del |-> FileAsk("delete", "u", "p", {}), room |-> FileAsk("room", "adm", "p", {}),
   prA |-> FileAsk("project", "r", "x", {"a"}), prB |-> FileAsk("project", "r", "y", {"b"}),
   era |-> FileAsk("erase", "r", "x", {}),
   svA |-> FileAsk("serve", "w", "p", {"a"}), swA |-> FileAsk("serve", "w", "p", {"a"}), svB |-> FileAsk("serve", "w", "p", {"b"})]
AuthorOf == [p |-> "u", q |-> "v", x |-> "r", y |-> "r"]
FileScenarios ==
  {{"upA", "mkA", "upB", "edB", "ret"}, {"upA", "mkA", "edA", "rem", "del"}, {"upA", "vpA", "mkA", "mkV", "del"},
   {"prA", "prB", "svA", "svB"}, {"prA", "upA", "mkA", "svA", "room"}, {"prA", "svA", "swA"},
   {"prA", "vpA", "mkV", "svA", "era"}, {"upA", "mkA", "edB", "upB", "del"}}

Files == INSTANCE Attachments WITH
  tick <- beat, crossed <- passed, Hashes <- {"a", "b"}, Call <- FileCall,
  Scenarios <- FileScenarios, Author <- AuthorOf, Remote <- {"x", "y"},
  NoUser <- "nobody", MaxBytes <- 1, Batch <- 1, Floor <- 2, Backoff <- 1,
  Ttl <- 1, MaxTick <- 2, MaxSweeps <- 2
attVars == <<beat, blobs, staged, bound, pst, gone, fails, ask, sweep, uploaded, warm, passed>>

-----------------------------------------------------------------------------
(* Three rooms, two tabs of one user.                                      *)

Pins == INSTANCE Favorites WITH
  Rooms <- {r1, r2, r3}, NoRoom <- "none", Tabs <- {t1, t2}, Cap <- 2,
  MaxDeletes <- 1
favVars == <<live, fav, tab, gapped>>

-----------------------------------------------------------------------------
(* Three reports by two users, two handlers at the other instance.         *)

ReportBy == [q \in 1 .. 3 |-> IF q = 3 THEN "v" ELSE "u"]

Queue == INSTANCE Reports WITH
  ask <- filing, Requests <- {1, 2, 3}, By <- ReportBy,
  Deliveries <- {1, 2}, MaxMoves <- 2
repVars == <<home, moves, local, remote, filing, wire, hnd, met, lost, shifted>>

-----------------------------------------------------------------------------
(* One component runs; the others rest.                                    *)

Off == "off"
LimitsOff == Init /\ route = "push"
ConfigOff == ConfigInit
AccountsOff ==
  /\ day = Off /\ acct = Off /\ invite = Off /\ chal = Off /\ sess = Off
  /\ trust = Off /\ call = Off /\ fresh = Off /\ crowd = Off /\ crossed = Off
AttachmentsOff ==
  /\ beat = Off /\ blobs = Off /\ staged = Off /\ bound = Off /\ pst = Off
  /\ gone = Off /\ fails = Off /\ ask = Off /\ sweep = Off /\ uploaded = Off
  /\ warm = Off /\ passed = Off
FavoritesOff ==
  /\ live = Off /\ fav = Off /\ tab = Off /\ gapped = Off
ReportsOff ==
  /\ home = Off /\ moves = Off /\ local = Off /\ remote = Off /\ filing = Off
  /\ wire = Off /\ hnd = Off /\ met = Off /\ lost = Off /\ shifted = Off

HomeInit ==
  \/ part = "limits" /\ Init
     /\ ConfigOff /\ AccountsOff /\ AttachmentsOff /\ FavoritesOff /\ ReportsOff
  \/ part = "config" /\ ConfigInit
     /\ LimitsOff /\ AccountsOff /\ AttachmentsOff /\ FavoritesOff /\ ReportsOff
  \/ part = "accounts" /\ People!AcctInit
     /\ LimitsOff /\ ConfigOff /\ AttachmentsOff /\ FavoritesOff /\ ReportsOff
  \/ part = "attachments" /\ Files!AttInit
     /\ LimitsOff /\ ConfigOff /\ AccountsOff /\ FavoritesOff /\ ReportsOff
  \/ part = "favorites" /\ Pins!FavInit
     /\ LimitsOff /\ ConfigOff /\ AccountsOff /\ AttachmentsOff /\ ReportsOff
  \/ part = "reports" /\ Queue!RepInit
     /\ LimitsOff /\ ConfigOff /\ AccountsOff /\ AttachmentsOff /\ FavoritesOff

HomeNext ==
  \/ part = "limits" /\ Next
     /\ UNCHANGED <<part, configVars, acctVars, attVars, favVars, repVars>>
  \/ part = "config" /\ ConfigNext
     /\ UNCHANGED <<part, vars, acctVars, attVars, favVars, repVars>>
  \/ part = "accounts" /\ People!AcctNext
     /\ UNCHANGED <<part, vars, configVars, attVars, favVars, repVars>>
  \/ part = "attachments" /\ Files!AttNext
     /\ UNCHANGED <<part, vars, configVars, acctVars, favVars, repVars>>
  \/ part = "favorites" /\ Pins!FavNext
     /\ UNCHANGED <<part, vars, configVars, acctVars, attVars, repVars>>
  \/ part = "reports" /\ Queue!RepNext
     /\ UNCHANGED <<part, vars, configVars, acctVars, attVars, favVars>>

HomeVars == <<part, vars, configVars, acctVars, attVars, favVars, repVars>>
HomeSpec == HomeInit /\ [][HomeNext]_HomeVars

-----------------------------------------------------------------------------
(* What the components promise, each in its own behaviours.                *)

\* What a request read before its await is used after it, yet: a deleted account has no
\* trust edge, what it still shows was signed before the deletion, an invite is
\* exceeded at most by the signups in flight together, a ban ends only by an unban, a
\* deletion or a request that had read the account before it, and no request starts for
\* a deleted account.
StaleReadsBounded ==
  /\ [](part = "accounts" =>
          /\ People!AcctTypeOK /\ People!EdgesDieWithAccount
          /\ People!OnlyLatePosts /\ People!InviteBound)
  /\ [][part = "accounts" => People!BanStandsStep]_HomeVars
  /\ [][part = "accounts" => People!DeletedNeverServedStep]_HomeVars

\* Whatever uploads, edits, retractions, fetches and sweeps cross: no binding dangles,
\* bytes match their hash, who binds a file uploaded it, a retracted post stays blank
\* and a deleted uploader forgotten save for a request under way, the bytes a current
\* post of ours binds stay, and the eviction is least-recently-used up to the floor.
\* (What a deletion leaves bound stays bound, which the comment in soft_delete_user()
\* denies.)
AttachmentsStand ==
  /\ [](part = "attachments" =>
          /\ Files!AttTypeOK /\ Files!NothingDangles /\ Files!BytesMatchHash
          /\ Files!BoundByUploader /\ Files!RetractedStaysBlank
          /\ Files!UploaderForgotten)
  /\ [][part = "attachments" => Files!OriginKeepsBytesStep]_HomeVars
  /\ [][part = "attachments" => Files!LruWithinFloorStep]_HomeVars

\* Whatever requests, deliveries and moves of the author cross: a report that was
\* answered sits in a queue or is on its way, unless the relay gave it up, the other
\* instance turned it away or the author came home under it; and a reporter is in both
\* queues only if the author moved.
ReportsArrive ==
  part = "reports" =>
    /\ Queue!RepTypeOK /\ Queue!NoReportVanishes /\ Queue!CountedOnce

\* However the two tabs of a user add, remove and reorder favorites, there are at most
\* as many as the cap, and their positions are dense but for the gap a room's deletion
\* leaves until the next renumbering.
PinsDense ==
  part = "favorites" =>
    /\ Pins!FavTypeOK /\ Pins!PositionsDense /\ Pins!WithinCap
=============================================================================
