------------------------------- MODULE Moves -------------------------------
(***************************************************************************)
(* Where a user lives, as one instance sees it: the receipt of signed move *)
(* declarations (server/src/federation/moves.rs), the stubs of remote      *)
(* users that follow them (remote_users.rs), the trust codes that seed a   *)
(* home (redeem_trust_code() of users.rs) and the registration of a user   *)
(* who re-homes here (the move publication of registration.rs).            *)
(*                                                                         *)
(* One user key; keys share no state.  A move is a record [hash, from, to, *)
(* at, prior, gen]; hashes are numbers, compared as the bytes are.         *)
(* Several requests run at once; each query outside a transaction is a     *)
(* step, each transaction is one step.                                     *)
(***************************************************************************)
EXTENDS Integers

CONSTANTS
  AllMoves,    \* the declarations that may be signed with the key
  NoMove,      \* not a move
  Instances,   \* instance keys
  Self,        \* this instance
  Skew,        \* MAX_CLOCK_SKEW_MS
  Requests,    \* pushes served at the same time
  MaxTime,     \* bound on the clock
  MaxJoins     \* bound on registrations

\* A hash names one declaration; times and hashes are numbers.
ASSUME MovesAssumption ==
  /\ NoMove \notin AllMoves /\ Self \in Instances /\ "none" \notin Instances
  /\ {Skew, MaxTime, MaxJoins} \subseteq Nat
  /\ \A m \in AllMoves : m.at \in Int /\ m.hash \in Int /\ m.to \in Instances
  /\ \A m, n \in AllMoves : m.hash = n.hash => m = n

VARIABLES
  now,      \* the clock
  known,    \* the moves in signed_objects and user_moves
  cur,      \* the move user_homes names, NoMove for none
  home,     \* user_homes.current_home_key, "none" without a row
  genesis,  \* user_genesis.genesis_at, at most one
  row,      \* the users row: its signup_method and home_instance
  keys,     \* signing key, sessions and credentials of the user are here
  inbox,    \* per request, the move it works on
  joining,  \* when the registration that is under way read the clock, -1 for none
  joins,    \* registrations so far
  minted,   \* a registration wrote a move of its own
  code,     \* the home in a trust code that is being redeemed, "none" for none
  seeded    \* a trust code wrote the users row, or a registration did without a move

moveVars == <<now, known, cur, home, genesis, row, keys, inbox, joining, joins, minted, code, seeded>>

Quiet == [pc |-> "idle", mv |-> NoMove]
NoRow == [method |-> "none", home |-> "none"]

\* Unknown here, or born here: mint_local_user_genesis() stored a declaration
\* without a source and pointed the home at this instance.
MovesInit ==
  /\ now = 0
  /\ \/ /\ known = {} /\ cur = NoMove /\ home = "none" /\ genesis = {}
        /\ row = NoRow /\ keys = FALSE
     \/ \E g \in AllMoves :
          /\ g.from = "none" /\ g.to = Self /\ g.at = 0
          /\ known = {g} /\ cur = g /\ home = Self /\ genesis = {g.gen}
          /\ row = [method |-> "local", home |-> Self] /\ keys = TRUE
  /\ inbox = [r \in Requests |-> Quiet]
  /\ joining = -1 /\ joins = 0 /\ minted = FALSE /\ code = "none" /\ seeded = FALSE

-----------------------------------------------------------------------------
(* POST /federation/v1/moves.                                              *)

\* new_wins: the later declaration, and of two equally late ones the one with
\* the smaller hash.
Beats(m, n) == m.at > n.at \/ (m.at = n.at /\ m.hash < n.hash)

\* A row without a move (none, or seeded by a trust code) always loses.
NewWins(m) == cur = NoMove \/ Beats(m, cur)

SkewOk(m) == (IF now > m.at THEN now - m.at ELSE m.at - now) <= Skew

\* Steps 1 to 5: decode, dedup, parse, both signatures, clock.  A duplicate is
\* only forwarded once more, which is in Gossip.
MoveReceive(r) ==
  /\ inbox[r] = Quiet
  /\ \A q \in Requests : inbox[q] = Quiet => r <= q
  /\ \E m \in AllMoves :
       /\ m \notin known /\ SkewOk(m)
       /\ inbox' = [inbox EXCEPT ![r] = [pc |-> "new", mv |-> m]]
  /\ UNCHANGED <<now, known, cur, home, genesis, row, keys, joining, joins, minted, code, seeded>>

\* Step 6: the predecessor has to be stored, else the move is deferred.
Grounded(m) == m.prior # 0 => \E n \in known : n.hash = m.prior
MoveGround(r) ==
  /\ inbox[r].pc = "new"
  /\ inbox' = [inbox EXCEPT ![r] = IF Grounded(inbox[r].mv) THEN [@ EXCEPT !.pc = "tx"] ELSE Quiet]
  /\ UNCHANGED <<now, known, cur, home, genesis, row, keys, joining, joins, minted, code, seeded>>

\* The genesis_at of a key never changes.
GenesisOk(m) == genesis \in {{}, {m.gen}}

\* dispose_local_user_authority(): the move leaves this instance.
Leaves(m) == m.from = Self /\ m.to # Self
Disposes_Winner(m) == Leaves(m) /\ NewWins(m)
Disposes(m) == Leaves(m)
dispose_local_user_authority(m, rw) ==
  /\ keys' = IF Disposes(m) /\ rw.method = "local" THEN FALSE ELSE keys
  /\ row' = IF Disposes(m) /\ rw.method = "local" THEN [rw EXCEPT !.method = "federated"] ELSE rw

\* users.home_instance follows the winner, when there is a row.
Rehomed(rw, m) == IF rw = NoRow THEN rw ELSE [rw EXCEPT !.home = m.to]

\* signed_objects and user_moves keep every move, INSERT OR IGNORE.
Stored_Replaces(m) == IF NewWins(m) THEN {m} ELSE known \union {m}
Stored(m) == known \union {m}

\* Step 7: BEGIN IMMEDIATE to COMMIT.
MoveApply(r) ==
  /\ inbox[r].pc = "tx"
  /\ LET m == inbox[r].mv IN
       IF GenesisOk(m)
       THEN /\ known' = Stored(m)
            /\ genesis' = {m.gen}
            /\ cur' = IF NewWins(m) THEN m ELSE cur
            /\ home' = IF NewWins(m) THEN m.to ELSE home
            /\ dispose_local_user_authority(m, IF NewWins(m) THEN Rehomed(row, m) ELSE row)
       ELSE UNCHANGED <<known, genesis, cur, home, row, keys>>
  /\ inbox' = [inbox EXCEPT ![r] = Quiet]
  /\ UNCHANGED <<now, joining, joins, minted, code, seeded>>

-----------------------------------------------------------------------------
(* Stubs and trust codes.                                                  *)

\* resolve_current_home(): the row of user_homes, else whoever sent the object.
resolve_current_home(from) == IF home = "none" THEN from ELSE home

\* hydrate_stub_user() for a profile that arrives from a peer.
Hydrate ==
  /\ row.method # "local" /\ ~(row # NoRow /\ row.home = Self)
  /\ \E from \in Instances \ {Self} :
       row' = [method |-> "federated", home |-> resolve_current_home(from)]
  /\ UNCHANGED <<now, known, cur, home, genesis, keys, inbox, joining, joins, minted, code, seeded>>

\* redeem_trust_code() of a user without a row.
RedeemRead ==
  /\ code = "none" /\ row = NoRow /\ ~seeded
  /\ \E h \in Instances \ {Self} : code' = h
  /\ UNCHANGED <<now, known, cur, home, genesis, row, keys, inbox, joining, joins, minted, seeded>>

\* Its transaction: a stub, new or there by now, gets the home the code names,
\* user_homes only if it has no row.
SeedHome(h) == IF home = "none" THEN h ELSE home
RedeemSeed ==
  /\ code # "none"
  /\ row' = IF row.method = "local" THEN row ELSE [method |-> "federated", home |-> code]
  /\ home' = SeedHome(code)
  /\ code' = "none" /\ seeded' = TRUE
  /\ UNCHANGED <<now, known, cur, genesis, keys, inbox, joining, joins, minted>>

-----------------------------------------------------------------------------
(* complete() of registration.rs, as far as it concerns the home.          *)

\* The clock is read, then the prior home is looked for over the network.
JoinStart ==
  /\ joining = -1 /\ joins < MaxJoins /\ row.method # "local"
  /\ joining' = now
  /\ UNCHANGED <<now, known, cur, home, genesis, row, keys, inbox, joins, minted, code, seeded>>

\* Published is the move the registration signs: from the prior home to here, at
\* the time that was read, with the genesis on file; {} when the prior home was
\* not found or there is no genesis.
Published(S) ==
  \/ S = {}
  \/ \E m \in AllMoves \ known :
       /\ m.to = Self /\ m.from \notin {"none", Self} /\ m.prior = 0
       /\ m.at = joining /\ m.gen \in genesis
       /\ S = {m}

\* The transaction; user_homes is overwritten without a comparison.
JoinCommit ==
  /\ joining >= 0
  /\ IF row.method = "local"
     THEN UNCHANGED <<known, cur, home, row, keys, minted, seeded>>
     ELSE /\ row' = [method |-> "local", home |-> Self]
          /\ keys' = TRUE
          /\ \/ /\ Published({})
                /\ seeded' = TRUE
                /\ UNCHANGED <<known, cur, home, minted>>
             \/ \E m \in AllMoves :
                  /\ Published({m})
                  /\ known' = known \union {m} /\ cur' = m /\ home' = Self
                  /\ minted' = TRUE /\ UNCHANGED seeded
  /\ joining' = -1 /\ joins' = joins + 1
  /\ UNCHANGED <<now, genesis, inbox, code>>

Tick ==
  /\ now < MaxTime
  /\ now' = now + 1
  /\ UNCHANGED <<known, cur, home, genesis, row, keys, inbox, joining, joins, minted, code, seeded>>

MovesNext ==
  \/ \E r \in Requests : MoveReceive(r) \/ MoveGround(r) \/ MoveApply(r)
  \/ Hydrate \/ RedeemRead \/ RedeemSeed \/ JoinStart \/ JoinCommit \/ Tick

MovesSpec == MovesInit /\ [][MovesNext]_moveVars

-----------------------------------------------------------------------------
(* Properties.                                                             *)

\* The variables have their types.
MovesTypeOK ==
  /\ now \in 0..MaxTime /\ joining \in -1..MaxTime /\ joins \in 0..MaxJoins
  /\ known \subseteq AllMoves /\ cur \in AllMoves \union {NoMove}
  /\ {home, code} \subseteq Instances \union {"none"}
  /\ row.method \in {"none", "local", "federated"} /\ row.home \in Instances \union {"none"}
  /\ inbox \in [Requests -> [pc : {"idle", "new", "tx"}, mv : AllMoves \union {NoMove}]]
  /\ {keys, minted, seeded} \subseteq BOOLEAN

\* However moves overtake each other, user_homes names the latest one that is
\* stored, with the smaller hash on a tie, so that instances that hold the same
\* moves agree on the home; a seeded home only stands until the first move.
\* This holds as long as no registration here wrote user_homes by itself.
HomeIsLatest ==
  ~minted =>
    /\ known = {} => cur = NoMove
    /\ known # {} => /\ cur \in known /\ home = cur.to
                     /\ \A n \in known \ {cur} : Beats(cur, n)

\* Every stored move carries the one birth time on file.
GenesisImmutable == \A m \in known : genesis = {m.gen}

\* Once a move away from here is stored the instance holds no key, session or
\* credential of the user, whichever move won, until the user registers again.
NothingKeptBehind == (joins = 0 /\ \E m \in known : Leaves(m)) => ~keys

\* The home on the users row is the home in user_homes, in whatever order
\* profiles and moves arrive; trust codes and registrations that publish no move
\* are excepted.
RowFollowsHome == (~seeded /\ row # NoRow /\ home # "none") => row.home = home

\* resolve_home_at_t(): the home in force when an object was signed.
Best(S) == CHOOSE m \in S : \A n \in S \ {m} : Beats(m, n)
Earliest(S) == CHOOSE m \in S : \A n \in S \ {m} :
                 m.at < n.at \/ (m.at = n.at /\ m.hash < n.hash)
resolve_home_at_t(t, from) ==
  LET before == {m \in known : m.at <= t}
  IN  IF before # {} THEN Best(before).to
      ELSE IF known # {} THEN Earliest(known).from ELSE from

\* An object signed now was signed at the current home: the frozen home of posts
\* and the home of the user resolve ties and gaps alike.
HomeAtNowIsHome ==
  (~minted /\ known # {}) => resolve_home_at_t(MaxTime + Skew, "none") = home

\* However moves overtake each other, user_homes names the latest until a
\* registration here writes it by itself, the users row agrees with it unless a
\* trust code seeded it, one birth time is on file, the home in force now is the
\* home, and nothing of a user who left is kept.
HomeFollowsMoves ==
  /\ MovesTypeOK /\ HomeIsLatest /\ GenesisImmutable /\ NothingKeptBehind
  /\ RowFollowsHome /\ HomeAtNowIsHome

\* The receipt of moves implements a latest-wins register.
Register == INSTANCE HomeRegister WITH seen <- known, best <- cur, forced <- minted
ImplementsRegister == Register!RegisterSpec
=============================================================================
