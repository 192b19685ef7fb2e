---------------------------- MODULE Registration ----------------------------
(***************************************************************************)
(* A user of another instance registers here with the key they bring       *)
(* (server/src/federation/registration.rs): begin() hands out a nonce and  *)
(* a passkey ceremony, complete() checks both, looks for the prior home at *)
(* the peers (prior_home.rs, prior_home_client.rs) and creates the account *)
(* or promotes the stub that federation left behind.  Which move follows   *)
(* from the prior home is in Moves, the recovery of content in Recovery.   *)
(*                                                                         *)
(* One key.  Whatever a peer answered before, it may answer anything next. *)
(***************************************************************************)
EXTENDS Integers, Sequences

CONSTANTS
  Peers,       \* peer instances, all of them active
  Recent,      \* the same, the most recent handshake first
  Ceremonies,  \* ids of challenges, 1..n
  Joiners,     \* concurrent complete() requests
  TTL,         \* REGISTRATION_CHALLENGE_TTL_MS
  MaxAge,      \* REGISTRATION_CHALLENGE_MAX_AGE_MS; ceremonies go after TTL
  LastHour,    \* bound on the clock
  FanoutMax,   \* PRIOR_HOME_PROBE_FANOUT_MAX
  Batch        \* PRIOR_HOME_PROBE_BATCH_SIZE

VARIABLES
  hour,       \* the clock
  nonces,     \* registration_challenges: per ceremony when issued and whether consumed
  passkeys,   \* auth_challenges
  account,    \* the users row of the key: kind, id, home_instance
  nameUsed,   \* another row carries the display name
  join,       \* the requests
  created     \* the registrations that were committed

regVars == <<hour, nonces, passkeys, account, nameUsed, join, created>>

Nobody == [kind |-> "none", id |-> 0, home |-> "none"]
Resting == [pc |-> "idle", c |-> 0, decl |-> "none", todo |-> <<>>, src |-> "none",
            denied |-> FALSE, asked |-> 0]
NotIssued == [at |-> -1, used |-> FALSE]

RegInit ==
  /\ hour = 0 /\ nonces = [c \in Ceremonies |-> NotIssued] /\ passkeys = {}
  /\ account = Nobody /\ nameUsed = FALSE
  /\ join = [r \in Joiners |-> Resting]
  /\ created = {}

\* The pre-checks of begin() read the tables outside a transaction.
BeginRefuses == nameUsed \/ account.kind # "none"
Begin ==
  \E c \in Ceremonies :
    /\ nonces[c] = NotIssued
    /\ \A d \in Ceremonies : d < c => nonces[d] # NotIssued
    /\ ~BeginRefuses
    /\ nonces' = [nonces EXCEPT ![c].at = hour]
    /\ passkeys' = passkeys \union {c}
    /\ UNCHANGED <<hour, account, nameUsed, join, created>>

\* complete() up to the search for the prior home: the ceremony row, the
\* challenge, its age, its signature and the passkey.
Expired(c) == hour - nonces[c].at > TTL
CompleteRead(r) ==
  /\ join[r].pc = "idle"
  /\ \A q \in Joiners : q < r => join[q].pc # "idle"
  /\ \E c \in passkeys, decl \in Peers \union {"none"} :
       /\ ~Expired(c)
       /\ join' = [join EXCEPT ![r] = [Resting EXCEPT
                     !.pc = IF decl = "none" THEN "local" ELSE "declared", !.c = c, !.decl = decl]]
  /\ UNCHANGED <<hour, nonces, passkeys, account, nameUsed, created>>

-----------------------------------------------------------------------------
(* discover_prior_home().                                                  *)

\* What a probe may come back with: handle_challenge() and handle_probe() say
\* whether the key has a live local account, or answer 4xx when a rate limit or a
\* deactivation stands in the way; no usable answer is "down".
Answers == {"hit", "none", "4xx", "down"}

\* probe_once(): every 4xx counts as an answer of the peer.
ProbeClass(a) == IF a = "hit" THEN "Hit"
                 ELSE IF a = "down" THEN "Unreachable" ELSE "AuthoritativeMiss"

\* Strategy 1: the home the user declared.  A peer that says no ends the search.
MissEnds(class) == class = "AuthoritativeMiss"
AskDeclared(r) ==
  /\ join[r].pc = "declared"
  /\ \E a \in Answers :
       LET class == ProbeClass(a) IN
         join' = [join EXCEPT
           ![r].asked = @ + 1,
           ![r].pc = IF class = "Hit" \/ MissEnds(class) THEN "tx" ELSE "local",
           ![r].denied = class = "AuthoritativeMiss",
           ![r].src = IF class = "Hit" THEN join[r].decl ELSE "none"]
  /\ UNCHANGED <<hour, nonces, passkeys, account, nameUsed, created>>

\* Strategy 2: the home_instance of a stub, a hint only.  Then the most recent
\* peers are listed for strategy 3.
Listed == SubSeq(Recent, 1, IF FanoutMax < Len(Recent) THEN FanoutMax ELSE Len(Recent))
\* A request after n probes: the source found, the peers left to ask, where it goes on.
Searched(r, n, src, todo, pc) ==
  [join[r] EXCEPT !.asked = @ + n, !.src = src, !.todo = todo, !.pc = pc]

AskLocal(r) ==
  /\ join[r].pc = "local"
  /\ \/ /\ account.home \in Peers
        /\ \E a \in Answers :
             join' = [join EXCEPT ![r] =
                        IF ProbeClass(a) = "Hit" THEN Searched(r, 1, account.home, <<>>, "tx")
                                                 ELSE Searched(r, 1, "none", Listed, "fanout")]
     \/ account.home \notin Peers /\ join' = [join EXCEPT ![r] = Searched(r, 0, "none", Listed, "fanout")]
  /\ UNCHANGED <<hour, nonces, passkeys, account, nameUsed, created>>

\* Strategy 3: batches in parallel, the first hit in their order wins.
AskBatch(r) ==
  LET todo == join[r].todo
      n == IF Batch < Len(todo) THEN Batch ELSE Len(todo)
      rest == SubSeq(todo, n + 1, Len(todo))
  IN
  /\ join[r].pc = "fanout"
  /\ \E got \in [1..n -> Answers] :
       LET hits == {i \in 1..n : ProbeClass(got[i]) = "Hit"} IN
         join' = [join EXCEPT ![r] =
                    IF hits # {} THEN Searched(r, n, todo[CHOOSE i \in hits : \A j \in hits : i <= j], <<>>, "tx")
                    ELSE Searched(r, n, "none", rest, IF rest = <<>> THEN "tx" ELSE "fanout")]
  /\ UNCHANGED <<hour, nonces, passkeys, account, nameUsed, created>>

-----------------------------------------------------------------------------
(* The transaction of complete().                                          *)

NonceOk(c) == nonces[c].at >= 0 /\ ~nonces[c].used
KeyOk_Unchecked == TRUE
KeyOk == account.kind # "local"
\* A stub keeps its id, so that what was projected under it stays with it.
AccountId(c) == IF account.kind = "federated" THEN account.id ELSE c

CompleteTx(r) ==
  /\ join[r].pc = "tx"
  /\ LET c == join[r].c IN
       IF NonceOk(c) /\ c \in passkeys /\ KeyOk /\ ~nameUsed
       THEN /\ nonces' = [nonces EXCEPT ![c].used = TRUE]
            /\ passkeys' = passkeys \ {c}
            /\ account' = [kind |-> "local", id |-> AccountId(c), home |-> "none"]
            /\ created' = created \union {[c |-> c, src |-> join[r].src,
                                           denied |-> join[r].denied]}
       ELSE UNCHANGED <<nonces, passkeys, account, created>>
  /\ join' = [join EXCEPT ![r] = Resting]
  /\ UNCHANGED <<hour, nameUsed>>

-----------------------------------------------------------------------------
(* What goes on beside it.                                                 *)

\* A profile of the user arrives and leaves a stub.
HydrateStub ==
  /\ account = Nobody
  /\ \E p \in Peers : account' = [kind |-> "federated", id |-> 99, home |-> p]
  /\ UNCHANGED <<hour, nonces, passkeys, nameUsed, join, created>>

\* cleanup_loop() of session.rs.
Cleanup ==
  /\ nonces' = [c \in Ceremonies |->
       IF nonces[c].at >= 0 /\ hour - nonces[c].at > MaxAge THEN [nonces[c] EXCEPT !.used = TRUE] ELSE nonces[c]]
  /\ passkeys' = {c \in passkeys : hour - nonces[c].at <= TTL}
  /\ <<nonces', passkeys'>> # <<nonces, passkeys>>
  /\ UNCHANGED <<hour, account, nameUsed, join, created>>

\* Somebody else takes the name.
NameTaken ==
  /\ ~nameUsed /\ nameUsed' = TRUE
  /\ UNCHANGED <<hour, nonces, passkeys, account, join, created>>

HourPasses ==
  /\ hour < LastHour /\ hour' = hour + 1
  /\ UNCHANGED <<nonces, passkeys, account, nameUsed, join, created>>

RegNext ==
  \/ Begin \/ HydrateStub \/ Cleanup \/ NameTaken \/ HourPasses
  \/ \E r \in Joiners : CompleteRead(r) \/ AskDeclared(r) \/ AskLocal(r) \/ AskBatch(r) \/ CompleteTx(r)

RegSpec == RegInit /\ [][RegNext]_regVars

-----------------------------------------------------------------------------
(* Properties.                                                             *)

\* However many ceremonies are open for a key and however their complete()
\* requests overlap, one account comes of them.
OneAccountPerKey == \A a, b \in created : a = b

\* A home the user declared that answers "not here" is not overridden by another
\* peer that happens to hold the key.
DenialStands == \A a \in created : a.denied => a.src = "none"

IdSurvivesStep ==
  account.id # 0 => account'.id = account.id

\* The id under which federation projected the content of the user survives the
\* registration.
IdSurvives == [][IdSurvivesStep]_account

\* However the requests for a key overlap, one account comes of them, with the id content
\* already has, and never on the word of a peer the declared home contradicts.
RegistrationSound == [](OneAccountPerKey /\ DenialStands) /\ IdSurvives
=============================================================================
