-------------------------- MODULE FederationProofs --------------------------
(***************************************************************************)
(* Where a user lives and how they get there.  For every set of            *)
(* declarations, every number of requests and every length of time:        *)
(* user_homes names the latest stored move, the genesis never changes,     *)
(* nothing of a user who left is kept, the users row follows, and the      *)
(* receipt of moves implements HomeRegister (federation/moves.rs).  For    *)
(* any number of ceremonies, overlapping complete() requests and peers,    *)
(* one account is created, it keeps the id of the stub it replaces, and a  *)
(* declared home that says no is not overridden                            *)
(* (federation/registration.rs).  For any subjects and instances, a chain  *)
(* of moderation statuses is held whole, the head is the latest whatever   *)
(* order the copies arrive in, and away from its home a thread is locked   *)
(* as its head says (federation/user_status.rs, thread_status.rs).         *)
(***************************************************************************)
EXTENDS Moves, Registration, Status, TLAPS

-----------------------------------------------------------------------------
(* Moves.                                                                  *)

\* The strengthening: what a request carries is a declaration, what is stored
\* are declarations, and nothing is stored without a genesis on file.
MovesInv ==
  /\ known \subseteq AllMoves
  /\ \A r \in Requests : inbox[r].pc # "idle" => inbox[r].mv \in AllMoves
  /\ DOMAIN inbox = Requests
  /\ known = {} => genesis = {}
  /\ minted \in BOOLEAN
  /\ HomeIsLatest
  /\ GenesisImmutable

\* Of two declarations one beats the other, and beating is transitive: the
\* comparison new_wins of apply_one_move() is a strict order on declarations.
LEMMA BeatsOrders ==
  /\ \A m, n \in AllMoves : m # n => Beats(m, n) \/ Beats(n, m)
  /\ \A l, m, n \in AllMoves : Beats(l, m) /\ Beats(m, n) => Beats(l, n)
BY MovesAssumption DEF Beats

\* The steps that touch neither the moves nor the requests keep the invariant.
LEMMA FrameKeepsMovesInv ==
  ASSUME MovesInv, UNCHANGED <<known, cur, genesis, inbox, minted>>,
         home' = home \/ known = {} \/ minted
  PROVE  MovesInv'
<1>1. HomeIsLatest' BY DEF MovesInv, HomeIsLatest, Beats
<1>2. GenesisImmutable' BY DEF MovesInv, GenesisImmutable
<1> QED BY <1>1, <1>2 DEF MovesInv

\* The transaction of a move that passed every check: the loser of the
\* comparison is stored beside the winner.
LEMMA WinnerStaysBest ==
  ASSUME MovesInv, ~minted, NEW m \in AllMoves
  PROVE  LET c == IF NewWins(m) THEN m ELSE cur
         IN  /\ c \in known \union {m}
             /\ \A n \in (known \union {m}) \ {c} : Beats(c, n)
             /\ ~NewWins(m) => known # {}
<1> USE DEF MovesInv, HomeIsLatest
<1>1. CASE known = {}
  BY <1>1 DEF NewWins
<1>2. CASE known # {} /\ NewWins(m)
  <2>1. cur \in AllMoves /\ cur # NoMove BY <1>2, MovesAssumption
  <2>2. Beats(m, cur) BY <1>2, <2>1 DEF NewWins
  <2>3. ASSUME NEW n \in known, n # m PROVE Beats(m, n)
    BY <2>1, <2>2, <2>3, <1>2, BeatsOrders
  <2> QED BY <1>2, <2>3
<1>3. CASE known # {} /\ ~NewWins(m)
  <2>1. cur \in AllMoves /\ cur # NoMove BY <1>3, MovesAssumption
  <2>2. m # cur => Beats(cur, m) BY <1>3, <2>1, BeatsOrders DEF NewWins
  <2> QED BY <1>3, <2>1, <2>2
<1> QED BY <1>1, <1>2, <1>3

\* A stored move of another genesis is refused, an equal one changes nothing.
LEMMA ApplyKeepsMovesInv ==
  ASSUME MovesInv, NEW r \in Requests, MoveApply(r)
  PROVE  MovesInv'
<1> DEFINE m == inbox[r].mv
<1>1. m \in AllMoves BY DEF MoveApply, MovesInv
<1>2. /\ DOMAIN inbox' = Requests
      /\ \A q \in Requests : inbox'[q].pc # "idle" => inbox'[q].mv \in AllMoves
  BY DEF MoveApply, MovesInv, Quiet
<1>3. CASE ~GenesisOk(m)
  <2>1. UNCHANGED <<known, genesis, cur, home, minted>> BY <1>3 DEF MoveApply
  <2>2. HomeIsLatest' BY <2>1 DEF MovesInv, HomeIsLatest, Beats
  <2>3. GenesisImmutable' BY <2>1 DEF MovesInv, GenesisImmutable
  <2> QED BY <1>2, <2>1, <2>2, <2>3 DEF MovesInv
<1>4. CASE GenesisOk(m)
  <2>1. /\ known' = known \union {m} /\ genesis' = {m.gen} /\ minted' = minted
        /\ cur' = IF NewWins(m) THEN m ELSE cur
        /\ home' = IF NewWins(m) THEN m.to ELSE home
    BY <1>4 DEF MoveApply, Stored
  <2>2. GenesisImmutable'
    BY <1>4, <2>1 DEF MovesInv, GenesisImmutable, GenesisOk
  <2>3. HomeIsLatest'
    <3>1. CASE minted BY <3>1, <2>1 DEF HomeIsLatest
    <3>2. CASE ~minted
      <4>1. cur' \in known' /\ \A n \in known' \ {cur'} : Beats(cur', n)
        BY <1>1, <2>1, <3>2, WinnerStaysBest
      <4>2. home' = cur'.to
        BY <1>1, <2>1, <3>2, WinnerStaysBest DEF MovesInv, HomeIsLatest
      <4>3. known' # {} BY <2>1
      <4> QED BY <4>1, <4>2, <4>3 DEF HomeIsLatest, Beats
    <3> QED BY <3>1, <3>2
  <2> QED BY <1>1, <1>2, <2>1, <2>2, <2>3 DEF MovesInv
<1> QED BY <1>3, <1>4

\* The transaction of a registration, which may overwrite user_homes.
LEMMA JoinKeepsMovesInv ==
  ASSUME MovesInv, JoinCommit
  PROVE  MovesInv'
<1>1. CASE UNCHANGED <<known, cur, home, minted>>
  <2>1. UNCHANGED <<genesis, inbox>> BY DEF JoinCommit
  <2> QED BY <1>1, <2>1, FrameKeepsMovesInv
<1>2. CASE ~UNCHANGED <<known, cur, home, minted>>
  <2>1. PICK m \in AllMoves : /\ Published({m}) /\ known' = known \union {m} /\ minted' = TRUE
    BY <1>2, Zenon DEF JoinCommit
  <2>2. m.gen \in genesis BY <2>1 DEF Published
  <2>3. known # {} BY <2>2 DEF MovesInv
  <2>4. UNCHANGED <<genesis, inbox>> BY DEF JoinCommit
  <2>5. GenesisImmutable'
    BY <2>1, <2>2, <2>3, <2>4 DEF MovesInv, GenesisImmutable
  <2>6. HomeIsLatest' BY <2>1 DEF HomeIsLatest
  <2> QED BY <2>1, <2>3, <2>4, <2>5, <2>6 DEF MovesInv
<1> QED BY <1>1, <1>2
-----------------------------------------------------------------------------
LEMMA MovesInvInductive ==
  ASSUME MovesInv, [MovesNext]_moveVars
  PROVE  MovesInv'
<1>1. ASSUME NEW r \in Requests, MoveReceive(r) PROVE MovesInv'
  <2>1. UNCHANGED <<known, cur, home, genesis, minted>> BY <1>1 DEF MoveReceive
  <2>2. /\ DOMAIN inbox' = Requests
        /\ \A q \in Requests : inbox'[q].pc # "idle" => inbox'[q].mv \in AllMoves
    BY <1>1 DEF MoveReceive, MovesInv
  <2>3. HomeIsLatest' BY <2>1 DEF MovesInv, HomeIsLatest, Beats
  <2>4. GenesisImmutable' BY <2>1 DEF MovesInv, GenesisImmutable
  <2> QED BY <2>1, <2>2, <2>3, <2>4 DEF MovesInv
<1>2. ASSUME NEW r \in Requests, MoveGround(r) PROVE MovesInv'
  <2>1. UNCHANGED <<known, cur, home, genesis, minted>> BY <1>2 DEF MoveGround
  <2>2. /\ DOMAIN inbox' = Requests
        /\ \A q \in Requests : inbox'[q].pc # "idle" => inbox'[q].mv \in AllMoves
    BY <1>2 DEF MoveGround, MovesInv, Quiet
  <2>3. HomeIsLatest' BY <2>1 DEF MovesInv, HomeIsLatest, Beats
  <2>4. GenesisImmutable' BY <2>1 DEF MovesInv, GenesisImmutable
  <2> QED BY <2>1, <2>2, <2>3, <2>4 DEF MovesInv
<1>3. ASSUME NEW r \in Requests, MoveApply(r) PROVE MovesInv'
  BY <1>3, ApplyKeepsMovesInv
<1>4. CASE Hydrate BY <1>4, FrameKeepsMovesInv DEF Hydrate
<1>5. CASE RedeemRead BY <1>5, FrameKeepsMovesInv DEF RedeemRead
<1>6. CASE RedeemSeed
  <2>1. home # "none" \/ known = {} \/ minted
    BY MovesAssumption DEF MovesInv, HomeIsLatest
  <2>2. home' = home \/ known = {} \/ minted BY <1>6, <2>1 DEF RedeemSeed, SeedHome
  <2> QED BY <1>6, <2>2, FrameKeepsMovesInv DEF RedeemSeed
<1>7. CASE JoinStart BY <1>7, FrameKeepsMovesInv DEF JoinStart
<1>8. CASE JoinCommit BY <1>8, JoinKeepsMovesInv
<1>9. CASE Tick BY <1>9, FrameKeepsMovesInv DEF Tick
<1>10. CASE UNCHANGED moveVars BY <1>10, FrameKeepsMovesInv DEF moveVars
<1> QED BY <1>1, <1>2, <1>3, <1>4, <1>5, <1>6, <1>7, <1>8, <1>9, <1>10 DEF MovesNext

LEMMA MovesInvInitially == MovesInit => MovesInv
<1> SUFFICES ASSUME MovesInit PROVE MovesInv
  OBVIOUS
<1>1. /\ minted = FALSE /\ DOMAIN inbox = Requests
      /\ \A r \in Requests : inbox[r].pc # "idle" => inbox[r].mv \in AllMoves
  BY DEF MovesInit, Quiet
<1>2. CASE known = {} /\ cur = NoMove /\ genesis = {}
  BY <1>1, <1>2, Zenon DEF MovesInv, HomeIsLatest, GenesisImmutable
<1>3. ASSUME NEW g \in AllMoves, known = {g}, cur = g, home = Self, g.to = Self, genesis = {g.gen}
      PROVE  MovesInv
  BY <1>1, <1>3, Zenon DEF MovesInv, HomeIsLatest, GenesisImmutable
<1> QED BY <1>2, <1>3 DEF MovesInit

\* user_homes names the latest of the stored moves, in every order of arrival
\* and with any number of concurrent pushes.
THEOREM HomeIsAlwaysLatest == MovesSpec => []HomeIsLatest
<1>1. MovesInv => HomeIsLatest BY DEF MovesInv
<1> QED BY <1>1, MovesInvInitially, MovesInvInductive, PTL DEF MovesSpec

\* All moves that are ever stored agree on the birth time of the key.
THEOREM GenesisNeverChanges == MovesSpec => []GenesisImmutable
<1>1. MovesInv => GenesisImmutable BY DEF MovesInv
<1> QED BY <1>1, MovesInvInitially, MovesInvInductive, PTL DEF MovesSpec

-----------------------------------------------------------------------------
LEMMA RegisterStep ==
  ASSUME MovesInv, [MovesNext]_moveVars
  PROVE  [Register!RegisterNext]_<<known, cur, minted>>
<1>1. CASE UNCHANGED <<known, cur, minted>> BY <1>1
<1>2. ASSUME NEW r \in Requests, MoveApply(r), ~UNCHANGED <<known, cur, minted>>
      PROVE  Register!RegisterNext
  <2> DEFINE m == inbox[r].mv
  <2>1. m \in AllMoves BY <1>2 DEF MoveApply, MovesInv
  <2>2. /\ known' = known \union {m} /\ minted' = minted
        /\ cur' = IF NewWins(m) THEN m ELSE cur
    BY <1>2 DEF MoveApply, Stored
  <2>3. CASE minted = TRUE BY <2>2, <2>3 DEF Register!RegisterNext, Register!Force
  <2>4. CASE minted = FALSE
    <3>1. cur' \in known' /\ \A n \in known' \ {cur'} : Beats(cur', n)
      BY <2>1, <2>2, <2>4, WinnerStaysBest
    <3> QED BY <2>1, <2>2, <2>4, <3>1
        DEF Register!RegisterNext, Register!Learn, Register!IsBest, Beats
  <2> QED BY <2>3, <2>4, Zenon DEF MovesInv
<1>3. ASSUME JoinCommit, ~UNCHANGED <<known, cur, minted>> PROVE Register!RegisterNext
  BY <1>3, Zenon DEF JoinCommit, Register!RegisterNext, Register!Force
<1> QED BY <1>1, <1>2, <1>3
    DEF MovesNext, MoveReceive, MoveGround, Hydrate, RedeemRead, RedeemSeed, JoinStart, Tick, moveVars

\* The receipt of moves implements a latest-wins register, up to the first
\* registration that writes user_homes by itself.
THEOREM MovesImplementRegister == MovesSpec => ImplementsRegister
<1>1. MovesInit => Register!RegisterInit
  BY DEF MovesInit, Register!RegisterInit
<1> QED BY <1>1, MovesInvInitially, MovesInvInductive, RegisterStep, PTL
    DEF MovesSpec, ImplementsRegister, Register!RegisterSpec

-----------------------------------------------------------------------------
(* The rest of HomeFollowsMoves.                                           *)

Rows == [method : {"none", "local", "federated"}, home : Instances \union {"none"}]

\* No declaration on file, or on its way there, is later than the clock may be.
InTime ==
  /\ \A m \in known : m.at <= MaxTime + Skew
  /\ \A r \in Requests : inbox[r].mv \in AllMoves => inbox[r].mv.at <= MaxTime + Skew

\* Inductive, with MovesInv: keys are here only for a local user, and a registration that
\* is under way has not been counted yet.
ResidenceInv ==
  /\ MovesTypeOK /\ row \in Rows /\ InTime
  /\ joining >= 0 => joins < MaxJoins
  /\ keys => row.method = "local"
  /\ NothingKeptBehind /\ RowFollowsHome

\* Of the stored moves the one user_homes names is the best, and none is in the future.
LEMMA CurIsBest == ASSUME MovesInv, InTime PROVE HomeAtNowIsHome
<1> SUFFICES ASSUME ~minted, known # {} PROVE resolve_home_at_t(MaxTime + Skew, "none") = home
  BY DEF HomeAtNowIsHome
<1>1. {m \in known : m.at <= MaxTime + Skew} = known
  BY DEF InTime
<1>2. cur \in known /\ home = cur.to /\ \A n \in known \ {cur} : Beats(cur, n)
  BY DEF MovesInv, HomeIsLatest
<1>3. \A m \in known : (\A n \in known \ {m} : Beats(m, n)) => m = cur
  <2> SUFFICES ASSUME NEW m \in known, \A n \in known \ {m} : Beats(m, n), m # cur PROVE FALSE
    OBVIOUS
  <2>1. Beats(m, cur) /\ Beats(cur, m) /\ m \in AllMoves /\ cur \in AllMoves
    BY <1>2 DEF MovesInv
  <2> QED
    BY <2>1, MovesAssumption DEF Beats
<1>4. Best(known) = cur
  BY <1>2, <1>3 DEF Best
<1> QED
  BY <1>1, <1>2, <1>4 DEF resolve_home_at_t

\* A step that touches only the requests, the clock and the counters.
LEMMA ResidenceFrame ==
  ASSUME ResidenceInv, MovesTypeOK', InTime', UNCHANGED <<known, home, row, keys, joins, seeded>>,
         joining' >= 0 => joins < MaxJoins
  PROVE  ResidenceInv'
  BY DEF ResidenceInv, NothingKeptBehind, RowFollowsHome, Leaves

LEMMA ResidenceStep == ASSUME ResidenceInv, MovesInv, [MovesNext]_moveVars PROVE ResidenceInv'
<1>a. /\ Self \in Instances /\ "none" \notin Instances /\ Skew \in Nat /\ MaxTime \in Nat /\ MaxJoins \in Nat
      /\ \A m \in AllMoves : m.at \in Int /\ m.to \in Instances
      /\ NoMove \notin AllMoves
  BY MovesAssumption
<1>t. MovesTypeOK /\ row \in Rows /\ InTime
  BY DEF ResidenceInv
<1>1. ASSUME NEW r \in Requests, MoveReceive(r) PROVE ResidenceInv'
  <2>1. PICK m \in AllMoves : SkewOk(m) /\ inbox' = [inbox EXCEPT ![r] = [pc |-> "new", mv |-> m]]
    BY <1>1, Zenon DEF MoveReceive
  <2>2. UNCHANGED <<now, known, cur, home, genesis, row, keys, joining, joins, minted, code, seeded>>
    BY <1>1, Zenon DEF MoveReceive
  <2>3. m.at <= MaxTime + Skew
    BY <2>1, <1>a, <1>t DEF SkewOk, MovesTypeOK
  <2>4. MovesTypeOK' /\ InTime'
    BY <2>1, <2>2, <2>3, <1>t DEF MovesTypeOK, InTime
  <2> QED
    BY <2>2, <2>4, ResidenceFrame DEF ResidenceInv
<1>2. ASSUME NEW r \in Requests, MoveGround(r) PROVE ResidenceInv'
  <2>1. UNCHANGED <<now, known, cur, home, genesis, row, keys, joining, joins, minted, code, seeded>>
    BY <1>2 DEF MoveGround
  <2>2. inbox' = [inbox EXCEPT ![r] = [@ EXCEPT !.pc = "tx"]] \/ inbox' = [inbox EXCEPT ![r] = Quiet]
    BY <1>2, Zenon DEF MoveGround
  <2>3. MovesTypeOK' /\ InTime'
    BY <2>1, <2>2, <1>t, <1>a DEF MovesTypeOK, InTime, Quiet
  <2> QED
    BY <2>1, <2>3, ResidenceFrame DEF ResidenceInv
<1>3. ASSUME NEW r \in Requests, MoveApply(r) PROVE ResidenceInv'
  <2> DEFINE m == inbox[r].mv
             rw == IF NewWins(m) THEN Rehomed(row, m) ELSE row
  <2>1. m \in AllMoves /\ m.to \in Instances
    BY <1>3, <1>a DEF MoveApply, MovesInv
  <2>2. inbox' = [inbox EXCEPT ![r] = Quiet] /\ UNCHANGED <<now, joining, joins, minted, code, seeded>>
    BY <1>3 DEF MoveApply
  <2>3. CASE ~GenesisOk(m)
    <3>1. UNCHANGED <<known, genesis, cur, home, row, keys>>
      BY <1>3, <2>3 DEF MoveApply
    <3>2. MovesTypeOK' /\ InTime'
      BY <2>2, <3>1, <1>t, <1>a DEF MovesTypeOK, InTime, Quiet
    <3> QED
      BY <2>2, <3>1, <3>2, ResidenceFrame DEF ResidenceInv
  <2>4. CASE GenesisOk(m)
    <3>1. /\ known' = known \union {m}
          /\ cur' = IF NewWins(m) THEN m ELSE cur
          /\ home' = IF NewWins(m) THEN m.to ELSE home
          /\ keys' = IF Leaves(m) /\ rw.method = "local" THEN FALSE ELSE keys
          /\ row' = IF Leaves(m) /\ rw.method = "local" THEN [rw EXCEPT !.method = "federated"] ELSE rw
      BY <1>3, <2>4, Zenon DEF MoveApply, Stored, dispose_local_user_authority, Disposes
    <3>2. /\ rw \in Rows /\ rw.method = row.method /\ (row = NoRow <=> rw = NoRow)
          /\ rw # NoRow /\ NewWins(m) => rw.home = m.to
          /\ ~NewWins(m) => rw.home = row.home
      BY <2>1, <1>t, <1>a DEF Rehomed, Rows, NoRow
    <3> HIDE DEF rw
    <3>3. row' \in Rows /\ row'.home = rw.home /\ (row' = NoRow <=> rw = NoRow)
      BY <3>1, <3>2 DEF Rows, NoRow
    <3>4. MovesTypeOK' /\ InTime'
      <4>1. home' \in Instances \union {"none"} /\ cur' \in AllMoves \union {NoMove} /\ known' \subseteq AllMoves
        BY <2>1, <3>1, <1>t DEF MovesTypeOK
      <4>2. keys' \in BOOLEAN
        BY <3>1, <1>t, Zenon DEF MovesTypeOK
      <4>3. inbox' \in [Requests -> [pc : {"idle", "new", "tx"}, mv : AllMoves \union {NoMove}]]
        BY <2>2, <1>t DEF MovesTypeOK, Quiet
      <4>4. InTime'
        BY <2>1, <2>2, <3>1, <1>t, <1>a DEF InTime, MovesTypeOK, Quiet
      <4> QED
        BY <4>1, <4>2, <4>3, <4>4, <3>3, <2>2, <1>t DEF MovesTypeOK, Rows
    <3>5. keys' => row'.method = "local" /\ ~Leaves(m) /\ keys
      BY <3>1, <3>2, <1>t, Zenon DEF ResidenceInv, MovesTypeOK
    <3>6. NothingKeptBehind'
      BY <2>2, <3>1, <3>5 DEF ResidenceInv, NothingKeptBehind, Leaves
    <3>7. RowFollowsHome'
      BY <2>2, <3>1, <3>2, <3>3 DEF ResidenceInv, RowFollowsHome
    <3> QED
      BY <2>2, <3>3, <3>4, <3>5, <3>6, <3>7 DEF ResidenceInv
  <2> QED
    BY <2>3, <2>4
<1>4. CASE Hydrate
  <2>1. PICK from \in Instances \ {Self} : row' = [method |-> "federated", home |-> resolve_current_home(from)]
    BY <1>4 DEF Hydrate
  <2>2. UNCHANGED <<now, known, cur, home, genesis, keys, inbox, joining, joins, minted, code, seeded>> /\ row.method # "local"
    BY <1>4 DEF Hydrate
  <2>3. row' \in Rows /\ row'.method = "federated" /\ (home # "none" => row'.home = home)
    BY <2>1, <1>t DEF Rows, resolve_current_home, MovesTypeOK
  <2>4. MovesTypeOK' /\ InTime'
    BY <2>2, <2>3, <1>t DEF MovesTypeOK, InTime, Rows
  <2> QED
    BY <2>2, <2>3, <2>4, <1>t DEF ResidenceInv, NothingKeptBehind, RowFollowsHome, Leaves, MovesTypeOK
<1>5. CASE RedeemRead
  <2>1. (\E h \in Instances : code' = h) /\ UNCHANGED <<now, known, cur, home, genesis, row, keys, inbox, joining, joins, minted, seeded>>
    BY <1>5 DEF RedeemRead
  <2>2. MovesTypeOK' /\ InTime'
    BY <2>1, <1>t DEF MovesTypeOK, InTime
  <2> QED
    BY <2>1, <2>2, ResidenceFrame DEF ResidenceInv
<1>6. CASE RedeemSeed
  <2>1. /\ row' = IF row.method = "local" THEN row ELSE [method |-> "federated", home |-> code]
        /\ home' = SeedHome(code) /\ code' = "none" /\ seeded' = TRUE
        /\ UNCHANGED <<now, known, cur, genesis, keys, inbox, joining, joins, minted>>
    BY <1>6 DEF RedeemSeed
  <2>2. row' \in Rows /\ (row.method = "local" => row'.method = "local") /\ home' \in Instances \union {"none"}
    BY <2>1, <1>t DEF Rows, SeedHome, MovesTypeOK
  <2>3. MovesTypeOK' /\ InTime'
    BY <2>1, <2>2, <1>t DEF MovesTypeOK, InTime, Rows
  <2> QED
    BY <2>1, <2>2, <2>3 DEF ResidenceInv, NothingKeptBehind, RowFollowsHome, Leaves
<1>7. CASE JoinStart
  <2>1. joining' = now /\ joins < MaxJoins /\ UNCHANGED <<now, known, cur, home, genesis, row, keys, inbox, joins, minted, code, seeded>>
    BY <1>7, Zenon DEF JoinStart
  <2>2. MovesTypeOK' /\ InTime'
    BY <2>1, <1>t, <1>a DEF MovesTypeOK, InTime
  <2> QED
    BY <2>1, <2>2, ResidenceFrame
<1>8. CASE JoinCommit
  <2>0. joining \in 0..MaxTime /\ joins \in Nat /\ joins < MaxJoins
    BY <1>8, <1>t, <1>a DEF JoinCommit, ResidenceInv, MovesTypeOK
  <2>1. joining' = -1 /\ joins' = joins + 1 /\ joins' # 0 /\ UNCHANGED <<now, genesis, inbox, code>>
    BY <1>8, <2>0 DEF JoinCommit
  <2>2. joining' \in -1..MaxTime /\ joins' \in 0..MaxJoins /\ ~(joining' >= 0)
    BY <2>0, <2>1, <1>a
  <2>3. CASE UNCHANGED <<known, cur, home, row, keys, minted, seeded>>
    <3>1. MovesTypeOK' /\ InTime'
      BY <2>1, <2>2, <2>3, <1>t DEF MovesTypeOK, InTime
    <3> QED
      BY <2>1, <2>2, <2>3, <3>1 DEF ResidenceInv, NothingKeptBehind, RowFollowsHome
  <2>4. CASE row' = [method |-> "local", home |-> Self] /\ keys' = TRUE /\ seeded' = TRUE
             /\ UNCHANGED <<known, cur, home, minted>>
    <3>1. MovesTypeOK' /\ InTime' /\ row' \in Rows
      BY <2>1, <2>2, <2>4, <1>t, <1>a DEF MovesTypeOK, InTime, Rows
    <3> QED
      BY <2>1, <2>2, <2>4, <3>1 DEF ResidenceInv, NothingKeptBehind, RowFollowsHome
  <2>5. ASSUME NEW m \in AllMoves, Published({m}), row' = [method |-> "local", home |-> Self], keys' = TRUE,
               known' = known \union {m}, cur' = m, home' = Self, minted' = TRUE, seeded' = seeded
        PROVE  ResidenceInv'
    <3>1. m.at = joining
      BY <2>5 DEF Published
    <3>2. m.at <= MaxTime + Skew
      BY <2>0, <3>1, <1>a
    <3>3. MovesTypeOK' /\ InTime' /\ row' \in Rows
      BY <2>1, <2>2, <2>5, <3>2, <1>t, <1>a DEF MovesTypeOK, InTime, Rows
    <3> QED
      BY <2>1, <2>2, <2>5, <3>3 DEF ResidenceInv, NothingKeptBehind, RowFollowsHome
  <2> QED
    BY <1>8, <2>3, <2>4, <2>5, Zenon DEF JoinCommit
<1>9. CASE Tick
  <2>1. now' = now + 1 /\ now < MaxTime /\ UNCHANGED <<known, cur, home, genesis, row, keys, inbox, joining, joins, minted, code, seeded>>
    BY <1>9 DEF Tick
  <2>2. MovesTypeOK' /\ InTime'
    BY <2>1, <1>t, <1>a DEF MovesTypeOK, InTime
  <2> QED
    BY <2>1, <2>2, ResidenceFrame DEF ResidenceInv
<1>10. CASE UNCHANGED moveVars
  <2>1. MovesTypeOK' /\ InTime'
    BY <1>10, <1>t DEF moveVars, MovesTypeOK, InTime
  <2> QED
    BY <1>10, <2>1, ResidenceFrame DEF moveVars, ResidenceInv
<1> QED
  BY <1>1, <1>2, <1>3, <1>4, <1>5, <1>6, <1>7, <1>8, <1>9, <1>10 DEF MovesNext

\* In whatever order moves, profiles, trust codes and registrations arrive: user_homes and
\* the users row name the latest stored move, an object signed now resolves to that home, one
\* genesis is on file, and nothing of a user who left is kept (apply_one_move(),
\* dispose_local_user_authority(), hydrate_stub_user(), redeem_trust_code(), complete()).
THEOREM HomeAlwaysFollowsMoves == MovesSpec => []HomeFollowsMoves
<1>1. MovesInit => ResidenceInv
  <2> SUFFICES ASSUME MovesInit PROVE ResidenceInv
    OBVIOUS
  <2>0. /\ Self \in Instances /\ Skew \in Nat /\ MaxTime \in Nat /\ MaxJoins \in Nat /\ NoMove \notin AllMoves
    BY MovesAssumption
  <2>1. /\ now = 0 /\ inbox = [r \in Requests |-> Quiet]
        /\ joining = -1 /\ joins = 0 /\ minted = FALSE /\ code = "none" /\ seeded = FALSE
    BY DEF MovesInit
  <2>i. /\ inbox \in [Requests -> [pc : {"idle", "new", "tx"}, mv : AllMoves \union {NoMove}]]
        /\ \A r \in Requests : inbox[r].mv \notin AllMoves
        /\ now \in 0..MaxTime /\ joining \in -1..MaxTime /\ joins \in 0..MaxJoins
        /\ {minted, seeded} \subseteq BOOLEAN /\ code = "none"
    <3>1. [pc |-> "idle", mv |-> NoMove] \in [pc : {"idle", "new", "tx"}, mv : AllMoves \union {NoMove}]
      OBVIOUS
    <3>2. inbox \in [Requests -> [pc : {"idle", "new", "tx"}, mv : AllMoves \union {NoMove}]]
      BY <2>1, <3>1 DEF Quiet
    <3>3. \A r \in Requests : inbox[r].mv \notin AllMoves
      BY <2>0, <2>1 DEF Quiet
    <3>4. now \in 0..MaxTime /\ joining \in -1..MaxTime /\ joins \in 0..MaxJoins
      BY <2>0, <2>1
    <3>5. {minted, seeded} \subseteq BOOLEAN /\ code = "none"
      BY <2>1, Zenon
    <3> QED
      BY <3>2, <3>3, <3>4, <3>5
  <2>2. CASE known = {} /\ cur = NoMove /\ home = "none" /\ row = NoRow /\ keys = FALSE
    <3>0. row \in Rows
      BY <2>2 DEF NoRow, Rows
    <3>1. MovesTypeOK /\ row \in Rows /\ InTime
      <4>1. InTime
        BY <2>2, <2>i DEF InTime
      <4>2. {home, code} \subseteq Instances \union {"none"} /\ {keys, minted, seeded} \subseteq BOOLEAN
        BY <2>2, <2>i, Zenon
      <4> QED
        BY <2>2, <2>i, <3>0, <4>1, <4>2 DEF MovesTypeOK, Rows
    <3> QED
      BY <2>0, <2>1, <2>2, <3>1 DEF ResidenceInv, NothingKeptBehind, RowFollowsHome
  <2>3. ASSUME NEW g \in AllMoves, g.to = Self, g.at = 0, known = {g}, cur = g, home = Self,
               row = [method |-> "local", home |-> Self], keys = TRUE
        PROVE  ResidenceInv
    <3>0. row \in Rows /\ \A m \in known : m.at <= MaxTime + Skew
      BY <2>0, <2>3 DEF Rows
    <3>1. MovesTypeOK /\ row \in Rows /\ InTime
      BY <2>0, <2>3, <2>i, <3>0 DEF MovesTypeOK, InTime, Rows
    <3>2. ~ \E m \in known : Leaves(m)
      BY <2>3 DEF Leaves
    <3> QED
      BY <2>0, <2>1, <2>3, <3>1, <3>2 DEF ResidenceInv, NothingKeptBehind, RowFollowsHome
  <2> QED
    BY <2>2, <2>3, Zenon DEF MovesInit
<1>2. ResidenceInv /\ MovesInv /\ [MovesNext]_moveVars => ResidenceInv'
  BY ResidenceStep
<1>3. ResidenceInv /\ MovesInv => HomeFollowsMoves
  BY CurIsBest, ZenonT(40) DEF ResidenceInv, MovesInv, HomeFollowsMoves
<1> QED
  BY <1>1, <1>2, <1>3, MovesInvInitially, MovesInvInductive, PTL DEF MovesSpec

-----------------------------------------------------------------------------
(* Registration.                                                           *)

\* Every step leaves the requests alone but for one.
JoinShape ==
  /\ DOMAIN join = Joiners
  /\ \A r \in Joiners : {"pc", "src", "denied", "todo", "asked"} \subseteq DOMAIN join[r]

\* Inductive: an account exists once one was created, and an account without a kind has no id.
AccountInv ==
  /\ account.kind \in {"none", "federated", "local"}
  /\ account.kind = "none" => account.id = 0
  /\ created = {} \/ (account.kind = "local" /\ \E a : created = {a})

\* Inductive: a request whose declared home said no goes straight to the transaction,
\* without a source.
DenialInv ==
  /\ JoinShape /\ DenialStands
  /\ \A r \in Joiners : join[r].pc = "declared" => ~join[r].denied
  /\ \A r \in Joiners : join[r].denied => join[r].pc = "tx" /\ join[r].src = "none"

-----------------------------------------------------------------------------

LEMMA AccountStep == AccountInv /\ [RegNext]_regVars => AccountInv' /\ [IdSurvivesStep]_account
<1> SUFFICES ASSUME AccountInv, [RegNext]_regVars PROVE AccountInv' /\ [IdSurvivesStep]_account
  OBVIOUS
<1>1. ASSUME NEW r \in Joiners, CompleteTx(r), account' # account \/ created' # created
      PROVE  AccountInv' /\ IdSurvivesStep
  <2>1. /\ KeyOk /\ account' = [kind |-> "local", id |-> AccountId(join[r].c), home |-> "none"]
        /\ created' = created \union {[c |-> join[r].c, src |-> join[r].src, denied |-> join[r].denied]}
    BY <1>1 DEF CompleteTx
  <2>2. created = {} /\ account.kind \in {"none", "federated"}
    BY <2>1 DEF KeyOk, AccountInv
  <2>3. account'.kind = "local" /\ account'.id = AccountId(join[r].c)
    BY <2>1, Zenon
  <2>4. account.id # 0 => account'.id = account.id
    BY <2>2, <2>3 DEF AccountId, AccountInv
  <2> QED
    BY <2>1, <2>2, <2>3, <2>4, Zenon DEF AccountInv, IdSurvivesStep
<1>2. ASSUME HydrateStub PROVE AccountInv' /\ IdSurvivesStep
  <2>1. account = Nobody /\ created' = created /\ account'.kind = "federated" /\ account'.id = 99
    BY <1>2 DEF HydrateStub
  <2>2. Nobody.kind = "none" /\ Nobody.id = 0
    BY DEF Nobody
  <2> QED
    BY <2>1, <2>2 DEF AccountInv, IdSurvivesStep
<1>3. CASE UNCHANGED <<account, created>>
  BY <1>3 DEF AccountInv
<1> QED
  BY <1>1, <1>2, <1>3, Zenon DEF RegNext, Begin, Cleanup, NameTaken, HourPasses, CompleteRead, AskDeclared, AskLocal,
                          AskBatch, regVars

LEMMA AccountStarts == RegInit => AccountInv
  BY DEF RegInit, AccountInv, Nobody

\* However many ceremonies and complete() requests overlap for a key, at most one account
\* comes of them (the transaction of complete() in registration.rs).
THEOREM OneAccount == RegSpec => []OneAccountPerKey
<1>1. RegInit => AccountInv
  BY AccountStarts
<1>2. AccountInv /\ [RegNext]_regVars => AccountInv'
  BY AccountStep
<1>3. AccountInv => OneAccountPerKey
  BY DEF AccountInv, OneAccountPerKey
<1> QED
  BY <1>1, <1>2, <1>3, PTL DEF RegSpec

\* The id of the account never changes once there is one: a stub that is promoted keeps
\* the id under which its content was projected.
THEOREM StubKeepsItsId == RegSpec => IdSurvives
<1>1. RegInit => AccountInv
  BY AccountStarts
<1>2. AccountInv /\ [RegNext]_regVars => AccountInv' /\ [IdSurvivesStep]_account
  BY AccountStep
<1> QED
  BY <1>1, <1>2, PTL DEF RegSpec, IdSurvives

-----------------------------------------------------------------------------

\* A request that is not touched owes nothing new.
LEMMA DenialFrame ==
  ASSUME DenialInv, NEW r \in Joiners, NEW x, join' = [join EXCEPT ![r] = x],
         {"pc", "src", "denied", "todo", "asked"} \subseteq DOMAIN x,
         x.pc = "declared" => ~x.denied, x.denied => x.pc = "tx" /\ x.src = "none",
         \A a \in created' : a.denied => a.src = "none"
  PROVE  DenialInv'
<1>1. join'[r] = x /\ \A q \in Joiners \ {r} : join'[q] = join[q]
  BY DEF DenialInv, JoinShape
<1>2. DOMAIN join' = Joiners
  BY DEF DenialInv, JoinShape
<1> QED
  BY <1>1, <1>2 DEF DenialInv, JoinShape, DenialStands

LEMMA DenialStep == DenialInv /\ [RegNext]_regVars => DenialInv'
<1> SUFFICES ASSUME DenialInv, [RegNext]_regVars PROVE DenialInv'
  OBVIOUS
<1>r. /\ {"pc", "src", "denied", "todo", "asked"} \subseteq DOMAIN Resting
      /\ Resting.pc = "idle" /\ ~Resting.denied /\ Resting.src = "none"
  BY DEF Resting
<1>1. ASSUME NEW r \in Joiners, CompleteRead(r) PROVE DenialInv'
  <2>1. PICK c, decl : join' = [join EXCEPT ![r] = [Resting EXCEPT
                     !.pc = IF decl = "none" THEN "local" ELSE "declared", !.c = c, !.decl = decl]]
    BY <1>1, Zenon DEF CompleteRead
  <2> DEFINE x == [Resting EXCEPT !.pc = IF decl = "none" THEN "local" ELSE "declared", !.c = c, !.decl = decl]
  <2>2. {"pc", "src", "denied", "todo", "asked"} \subseteq DOMAIN x /\ ~x.denied
    BY DEF Resting
  <2>3. created' = created
    BY <1>1 DEF CompleteRead
  <2> HIDE DEF x
  <2> QED
    BY <2>1, <2>2, <2>3, DenialFrame, Zenon DEF DenialInv, DenialStands, x
<1>2. ASSUME NEW r \in Joiners, AskDeclared(r) PROVE DenialInv'
  <2>1. PICK class \in {"Hit", "Unreachable", "AuthoritativeMiss"} : join' = [join EXCEPT
           ![r].asked = @ + 1,
           ![r].pc = IF class = "Hit" \/ MissEnds(class) THEN "tx" ELSE "local",
           ![r].denied = class = "AuthoritativeMiss",
           ![r].src = IF class = "Hit" THEN join[r].decl ELSE "none"]
    BY <1>2, Zenon DEF AskDeclared, ProbeClass
  <2>2. /\ DOMAIN join' = Joiners /\ \A q \in Joiners \ {r} : join'[q] = join[q]
        /\ {"pc", "src", "denied", "todo", "asked"} \subseteq DOMAIN join'[r]
        /\ join'[r].denied = (class = "AuthoritativeMiss")
        /\ join'[r].pc = IF class = "Hit" \/ MissEnds(class) THEN "tx" ELSE "local"
        /\ join'[r].src = IF class = "Hit" THEN join[r].decl ELSE "none"
    BY <2>1 DEF DenialInv, JoinShape
  <2>3. created' = created
    BY <1>2 DEF AskDeclared
  <2> QED
    BY <2>2, <2>3, ZenonT(40) DEF DenialInv, JoinShape, DenialStands, MissEnds
<1>3. ASSUME NEW r \in Joiners, AskLocal(r) \/ AskBatch(r) PROVE DenialInv'
  <2>1. ~join[r].denied /\ created' = created
    BY <1>3 DEF AskLocal, AskBatch, DenialInv
  <2>2. PICK n, src, todo, pc : join' = [join EXCEPT ![r] = Searched(r, n, src, todo, pc)] /\ pc \in {"tx", "fanout"}
    BY <1>3, Zenon DEF AskLocal, AskBatch
  <2> DEFINE x == Searched(r, n, src, todo, pc)
  <2>3. {"pc", "src", "denied", "todo", "asked"} \subseteq DOMAIN x /\ ~x.denied
    BY <2>1 DEF DenialInv, JoinShape, Searched
  <2> HIDE DEF x
  <2> QED
    BY <2>1, <2>2, <2>3, DenialFrame, Zenon DEF DenialInv, DenialStands, x
<1>4. ASSUME NEW r \in Joiners, CompleteTx(r) PROVE DenialInv'
  <2>1. join' = [join EXCEPT ![r] = Resting]
    BY <1>4 DEF CompleteTx
  <2>2. \/ created' = created
        \/ created' = created \union {[c |-> join[r].c, src |-> join[r].src, denied |-> join[r].denied]}
    BY <1>4, Zenon DEF CompleteTx
  <2>3. \A a \in created' : a.denied => a.src = "none"
    BY <2>2 DEF DenialInv, DenialStands
  <2> QED
    BY <2>1, <2>3, <1>r, DenialFrame, Zenon
<1>5. CASE UNCHANGED <<join, created>>
  BY <1>5 DEF DenialInv, JoinShape, DenialStands
<1> QED
  BY <1>1, <1>2, <1>3, <1>4, <1>5 DEF RegNext, Begin, HydrateStub, Cleanup, NameTaken, HourPasses, regVars

\* A declared home that answers "not here" is final (strategy 1 of discover_prior_home):
\* no registration carries both a denial and a source found elsewhere.
THEOREM DenialIsFinal == RegSpec => []DenialStands
<1>1. RegInit => DenialInv
  BY DEF RegInit, DenialInv, JoinShape, DenialStands, Resting
<1>2. DenialInv /\ [RegNext]_regVars => DenialInv'
  BY DenialStep
<1>3. DenialInv => DenialStands
  BY DEF DenialInv
<1> QED
  BY <1>1, <1>2, <1>3, PTL DEF RegSpec

-----------------------------------------------------------------------------

\* Whatever ceremonies and complete() requests for a key are open at once and whatever the
\* peers answer: one account, under the id content already has, and never against the
\* answer of the declared home.
THEOREM RegistrationIsSound == RegSpec => RegistrationSound
  BY OneAccount, DenialIsFinal, StubKeepsItsId, PTL DEF RegistrationSound


-----------------------------------------------------------------------------
(* Moderation statuses.                                                    *)

\* Requests run on instances.
Placed == IssuerAt \in [Issuers -> Nodes] /\ PushAt \in [Pushes -> Nodes]

ObjectType == [subj : Subjects, by : Nodes, at : Nat, prior : Nat, locks : BOOLEAN]
StatusTypes ==
  /\ object \in Seq(ObjectType) /\ clock \in Nat /\ rising \in BOOLEAN
  /\ has \in [Nodes -> SUBSET Objects]
  /\ head \in [Nodes -> [Subjects -> Nat]]
  /\ locked \in [Nodes -> BOOLEAN]
  /\ draft \in [Issuers -> [pc : {"idle", "stamped", "set"}, locks : BOOLEAN, at : Nat]]
  /\ push \in [Pushes -> Objects \union {None}]

\* A predecessor is an object of the same subject.
Linked ==
  \A o \in Objects : object[o].prior # None =>
    object[o].prior \in Objects /\ object[object[o].prior].subj = object[o].subj

\* A head is an object held, of its subject.
HeadsHeld ==
  \A n \in Nodes, s \in Subjects : head[n][s] # None => head[n][s] \in has[n] /\ object[head[n][s]].subj = s

ChainInv == StatusTypes /\ Linked /\ HeadsHeld /\ ChainHeldWhole

-----------------------------------------------------------------------------
(* Issuing.                                                                *)

\* The object an issue appends, and that the older ones stay as they are.
LEMMA IssueAppends ==
  ASSUME StatusTypes, NEW n \in Nodes, NEW s \in Subjects, NEW l \in BOOLEAN, NEW t \in Nat, Issue(n, s, l, t)
  PROVE  /\ object' \in Seq(ObjectType) /\ Len(object') = Len(object) + 1 /\ Len(object) \in Nat
         /\ object'[Len(object) + 1] = [subj |-> s, by |-> n, at |-> t, prior |-> head[n][s], locks |-> l]
         /\ \A o \in Objects : object'[o] = object[o]
         /\ Objects' = Objects \union {Len(object) + 1} /\ Len(object) + 1 \notin Objects
<1> DEFINE e == [subj |-> s, by |-> n, at |-> t, prior |-> head[n][s], locks |-> l]
<1>1. head[n][s] \in Nat
  BY Zenon DEF StatusTypes
<1>2. e \in ObjectType
  BY <1>1 DEF ObjectType
<1>3. object' = Append(object, e) /\ object \in Seq(ObjectType)
  BY DEF Issue, StatusTypes
<1> HIDE DEF e
<1>4. /\ object' \in Seq(ObjectType) /\ Len(object') = Len(object) + 1 /\ Len(object) \in Nat
      /\ object'[Len(object) + 1] = e
      /\ \A o \in 1..Len(object) : object'[o] = object[o]
  BY <1>2, <1>3
<1> QED
  BY <1>4 DEF Objects, e

\* What an issue does to the tables of its instance.
LEMMA IssueStores ==
  ASSUME StatusTypes, NEW n \in Nodes, NEW s \in Subjects, NEW l \in BOOLEAN, NEW t \in Nat, Issue(n, s, l, t)
  PROVE  /\ has' \in [Nodes -> SUBSET Objects'] /\ head' \in [Nodes -> [Subjects -> Nat]]
         /\ has'[n] = has[n] \union {Len(object) + 1} /\ head'[n][s] = Len(object) + 1
         /\ \A m \in Nodes \ {n} : has'[m] = has[m]
         /\ \A m \in Nodes, u \in Subjects : <<m, u>> # <<n, s>> => head'[m][u] = head[m][u]
<1>0. Objects' = Objects \union {Len(object) + 1} /\ Len(object) \in Nat
  BY IssueAppends, Zenon
<1>1. Objects' = Objects \union {Len(object) + 1} /\ Len(object) + 1 \in Nat
  BY <1>0
<1>2. /\ has' = [has EXCEPT ![n] = @ \union {Len(object) + 1}] /\ has \in [Nodes -> SUBSET Objects]
      /\ head' = [head EXCEPT ![n][s] = Len(object) + 1] /\ head \in [Nodes -> [Subjects -> Nat]]
  BY Zenon DEF Issue, StatusTypes
<1> QED
  BY <1>1, <1>2

\* What it has on record of itself.
LEMMA IssueFields ==
  ASSUME StatusTypes, NEW n \in Nodes, NEW s \in Subjects, NEW l \in BOOLEAN, NEW t \in Nat, Issue(n, s, l, t)
  PROVE  LET new == Len(object) + 1
         IN  object'[new].subj = s /\ object'[new].by = n /\ object'[new].prior = head[n][s]
<1>1. PICK e : e = object'[Len(object) + 1]
  BY Zenon
<1>2. PICK h : h = head[n][s]
  BY Zenon
<1>3. e = [subj |-> s, by |-> n, at |-> t, prior |-> h, locks |-> l]
  BY <1>1, <1>2, IssueAppends, Zenon
<1>4. e.subj = s /\ e.by = n /\ e.prior = h
  BY <1>3, Zenon
<1> QED
  BY <1>1, <1>2, <1>4, Zenon

\* Nothing else is stored and no other head moves.
LEMMA IssueMovesOneHead ==
  ASSUME StatusTypes, NEW n \in Nodes, NEW s \in Subjects, NEW l \in BOOLEAN, NEW t \in Nat, Issue(n, s, l, t)
  PROVE  \A m \in Nodes, u \in Subjects : <<m, u>> # <<n, s>> => head'[m][u] = head[m][u]
  BY IssueStores

LEMMA IssueStoresOne ==
  ASSUME StatusTypes, NEW n \in Nodes, NEW s \in Subjects, NEW l \in BOOLEAN, NEW t \in Nat, Issue(n, s, l, t)
  PROVE  /\ has'[n] = has[n] \union {Len(object) + 1} /\ head'[n][s] = Len(object) + 1
         /\ \A m \in Nodes \ {n} : has'[m] = has[m]
  BY IssueStores

-----------------------------------------------------------------------------
(* Types.                                                                  *)

LEMMA StatusTypesStep == ASSUME Placed PROVE StatusTypes /\ [StatusNext]_statusVars => StatusTypes'
<1> SUFFICES ASSUME StatusTypes, [StatusNext]_statusVars PROVE StatusTypes'
  OBVIOUS
<1>d. NoDraft \in [pc : {"idle", "stamped", "set"}, locks : BOOLEAN, at : Nat]
  BY Zenon DEF NoDraft
<1>1. ASSUME NEW i \in Issuers, UserModerated(i) PROVE StatusTypes'
  BY <1>1 DEF UserModerated, StatusTypes, Objects
<1>2. ASSUME NEW i \in Issuers, NEW s \in Subjects, NEW t \in Nat, Issue(IssuerAt[i], s, draft[i].locks, t),
             draft' = [draft EXCEPT ![i] = NoDraft], UNCHANGED <<topic, rising, clock, locked, knows, push>>
      PROVE  StatusTypes'
  <2>1. IssuerAt[i] \in Nodes /\ draft[i].locks \in BOOLEAN
    BY DEF Placed, StatusTypes
  <2>2. object' \in Seq(ObjectType) /\ Objects \subseteq Objects'
    BY <1>2, <2>1, IssueAppends, Zenon
  <2>3. has' \in [Nodes -> SUBSET Objects'] /\ head' \in [Nodes -> [Subjects -> Nat]]
    BY <1>2, <2>1, IssueStores, Zenon
  <2>4. draft' \in [Issuers -> [pc : {"idle", "stamped", "set"}, locks : BOOLEAN, at : Nat]]
    BY <1>2, <1>d, Zenon DEF StatusTypes
  <2>5. push' \in [Pushes -> Objects' \union {None}]
    BY <1>2, <2>2 DEF StatusTypes
  <2> QED
    BY <1>2, <2>2, <2>3, <2>4, <2>5 DEF StatusTypes
<1>3. ASSUME NEW i \in Issuers, ThreadModerated(i) PROVE StatusTypes'
  <2>1. IssuerAt[i] \in Nodes
    BY DEF Placed
  <2> QED
    BY <1>3, <2>1 DEF ThreadModerated, StatusTypes, Objects
<1>4. ASSUME NEW i \in Issuers, DispatchFails(i) PROVE StatusTypes'
  BY <1>4, <1>d DEF DispatchFails, StatusTypes, Objects
<1>5. ASSUME NEW p \in Pushes, NEW o \in Objects, PushArrives(p, o) PROVE StatusTypes'
  BY <1>5 DEF PushArrives, StatusTypes, Objects
<1>6. ASSUME NEW p \in Pushes, PushCommits(p) PROVE StatusTypes'
  <2> DEFINE n == PushAt[p]
             o == push[p]
             s == object[o].subj
             takes == SubjectKnown(n, o) /\ Authorised(n, o) /\ PriorHeld(n, o)
  <2>1. n \in Nodes /\ o \in Objects
    BY <1>6, Zenon DEF Placed, PushCommits, StatusTypes
  <2>2. object[o] \in ObjectType /\ o \in Nat
    BY <2>1 DEF StatusTypes, Objects
  <2>3. s \in Subjects /\ object[o].locks \in BOOLEAN
    BY <2>2, ZenonT(40) DEF ObjectType
  <2>4. /\ has' = [has EXCEPT ![n] = IF takes THEN @ \union {o} ELSE @]
        /\ head' = [head EXCEPT ![n][s] = IF takes /\ Wins(o, @) THEN o ELSE @]
        /\ locked' = [locked EXCEPT ![n] = IF takes THEN LockAfter(n, o) ELSE @]
        /\ push' = [push EXCEPT ![p] = None] /\ UNCHANGED <<topic, rising, clock, object, knows, draft>>
    BY <1>6, Zenon DEF PushCommits
  <2> HIDE DEF n, o, s, takes
  <2>5. LockAfter(n, o) \in BOOLEAN
    BY <2>1, <2>3, ZenonT(40) DEF LockAfter, StatusTypes
  <2>6. has' \in [Nodes -> SUBSET Objects]
    BY <2>1, <2>4, ZenonT(40) DEF StatusTypes
  <2>7. head' \in [Nodes -> [Subjects -> Nat]]
    <3>1. head \in [Nodes -> [Subjects -> Nat]]
      BY DEF StatusTypes
    <3>2. o \in Nat /\ s \in Subjects /\ n \in Nodes
      BY <2>1, <2>2, <2>3
    <3> QED
      BY <2>4, <3>1, <3>2
  <2>8. locked' \in [Nodes -> BOOLEAN] /\ push' \in [Pushes -> Objects \union {None}]
    BY <2>1, <2>4, <2>5, Zenon DEF StatusTypes
  <2> QED
    BY <2>4, <2>6, <2>7, <2>8 DEF StatusTypes, Objects
<1>7. CASE UNCHANGED <<object, rising, has, head, locked, draft, push>> /\ clock' \in Nat
  BY <1>7, Zenon DEF StatusTypes, Objects
<1>8. ASSUME NEW i \in Issuers, UserStatusCommits(i) \/ ThreadStatusCommits(i) PROVE StatusTypes'
  <2>1. draft[i].at \in Nat /\ clock \in Nat /\ "user" \in Subjects /\ "thread" \in Subjects
    BY DEF StatusTypes, Subjects
  <2> QED
    BY <1>8, <1>2, <2>1 DEF UserStatusCommits, ThreadStatusCommits
<1>9. clock \in Nat /\ clock + 1 \in Nat
  BY DEF StatusTypes
<1> QED
  BY <1>1, <1>3, <1>4, <1>5, <1>6, <1>7, <1>8, <1>9 DEF StatusNext, Learn, ClockTicks, statusVars

-----------------------------------------------------------------------------
(* Receiving.                                                              *)

\* What serving a push does: nothing, or the object is stored at its instance and becomes
\* the head of its subject if it wins.
LEMMA PushStores ==
  ASSUME Placed, StatusTypes, NEW p \in Pushes, PushCommits(p)
  PROVE  LET n == PushAt[p]
             o == push[p]
             s == object[o].subj
         IN /\ n \in Nodes /\ o \in Objects /\ s \in Subjects /\ UNCHANGED <<object, rising, topic, draft>>
            /\ \/ UNCHANGED <<has, head, locked>>
               \/ /\ PriorHeld(n, o) /\ Authorised(n, o)
                  /\ has' = [has EXCEPT ![n] = @ \union {o}]
                  /\ head' = [head EXCEPT ![n][s] = IF Wins(o, @) THEN o ELSE @]
                  /\ locked' = [locked EXCEPT ![n] = LockAfter(n, o)]
<1> DEFINE n == PushAt[p]
           o == push[p]
           s == object[o].subj
           takes == SubjectKnown(n, o) /\ Authorised(n, o) /\ PriorHeld(n, o)
<1>1. n \in Nodes /\ o \in Objects
  BY Zenon DEF Placed, PushCommits, StatusTypes
<1>2. object[o] \in ObjectType
  BY <1>1 DEF StatusTypes, Objects
<1>3. s \in Subjects
  BY <1>2 DEF ObjectType
<1>4. /\ has' = [has EXCEPT ![n] = IF takes THEN @ \union {o} ELSE @]
      /\ head' = [head EXCEPT ![n][s] = IF takes /\ Wins(o, @) THEN o ELSE @]
      /\ locked' = [locked EXCEPT ![n] = IF takes THEN LockAfter(n, o) ELSE @]
      /\ UNCHANGED <<object, rising, topic, draft>>
  BY Zenon DEF PushCommits
<1>5. CASE ~takes
  <2>1. has' = has /\ head' = head /\ locked' = locked
    BY <1>1, <1>3, <1>4, <1>5, ZenonT(40) DEF StatusTypes
  <2> QED
    BY <1>1, <1>3, <1>4, <2>1, Zenon
<1>6. CASE takes
  BY <1>1, <1>3, <1>4, <1>6, ZenonT(40)
<1> QED
  BY <1>5, <1>6, Zenon

-----------------------------------------------------------------------------
(* Chains are whole.                                                       *)

LEMMA ChainIssued ==
  ASSUME ChainInv, StatusTypes', NEW n \in Nodes, NEW s \in Subjects, NEW l \in BOOLEAN, NEW t \in Nat,
         Issue(n, s, l, t)
  PROVE  ChainInv'
<1> DEFINE new == Len(object) + 1
<1>t. StatusTypes
  BY DEF ChainInv
<1>1. /\ object'[new] = [subj |-> s, by |-> n, at |-> t, prior |-> head[n][s], locks |-> l]
      /\ \A o \in Objects : object'[o] = object[o]
      /\ Objects' = Objects \union {new} /\ new \notin Objects
  BY <1>t, IssueAppends
<1>2. /\ has'[n] = has[n] \union {new} /\ head'[n][s] = new
      /\ \A m \in Nodes \ {n} : has'[m] = has[m]
      /\ \A m \in Nodes, u \in Subjects : <<m, u>> # <<n, s>> => head'[m][u] = head[m][u]
  <2>1. \A m \in Nodes, u \in Subjects : <<m, u>> # <<n, s>> => head'[m][u] = head[m][u]
    BY <1>t, IssueMovesOneHead, Zenon
  <2>2. head'[n][s] = new
    BY <1>t, IssueStoresOne, Zenon
  <2>3. has'[n] = has[n] \union {new} /\ \A m \in Nodes \ {n} : has'[m] = has[m]
    BY <1>t, IssueStoresOne, Zenon
  <2> QED
    BY <2>1, <2>2, <2>3, Zenon
<1>3. \A m \in Nodes : has[m] \subseteq Objects
  BY <1>t DEF StatusTypes
<1>4. object'[new].subj = s /\ object'[new].prior = head[n][s]
  BY <1>t, IssueFields, Zenon
<1> HIDE DEF new
<1>5. ASSUME head[n][s] # None PROVE head[n][s] \in has[n] /\ object'[head[n][s]].subj = s
  <2>1. head[n][s] \in has[n] /\ object[head[n][s]].subj = s
    BY <1>5, Zenon DEF ChainInv, HeadsHeld
  <2>2. object'[head[n][s]] = object[head[n][s]]
    BY <1>1, <1>3, <2>1, Zenon
  <2> QED
    BY <2>1, <2>2, Zenon
<1>6. Linked'
  <2> SUFFICES ASSUME NEW o \in Objects', object'[o].prior # None
               PROVE  object'[o].prior \in Objects' /\ object'[object'[o].prior].subj = object'[o].subj
    BY DEF Linked
  <2>1. CASE o = new
    BY <2>1, <1>1, <1>3, <1>4, <1>5, Zenon
  <2>2. CASE o \in Objects
    BY <2>2, <1>1, Zenon DEF ChainInv, Linked
  <2> QED
    BY <2>1, <2>2, <1>1, ZenonT(40)
<1>7. HeadsHeld'
  <2> SUFFICES ASSUME NEW m \in Nodes, NEW u \in Subjects, head'[m][u] # None
               PROVE  head'[m][u] \in has'[m] /\ object'[head'[m][u]].subj = u
    BY DEF HeadsHeld
  <2>1. CASE <<m, u>> = <<n, s>>
    BY <2>1, <1>2, <1>4, Zenon
  <2>2. CASE <<m, u>> # <<n, s>>
    <3>1. head[m][u] \in has[m] /\ object[head[m][u]].subj = u /\ head'[m][u] = head[m][u]
      BY <2>2, <1>2, Zenon DEF ChainInv, HeadsHeld
    <3>2. has[m] \subseteq has'[m]
      BY <1>2
    <3> QED
      BY <3>1, <3>2, <1>1, <1>3, Zenon
  <2> QED
    BY <2>1, <2>2
<1>8. ChainHeldWhole'
  <2> SUFFICES ASSUME NEW m \in Nodes, NEW o \in has'[m], object'[o].prior # None
               PROVE  object'[o].prior \in has'[m] /\ object'[object'[o].prior].subj = object'[o].subj
    BY Zenon DEF ChainHeldWhole
  <2>1. CASE o = new
    <3>1. m = n
      BY <2>1, <1>1, <1>2, <1>3
    <3> QED
      BY <2>1, <3>1, <1>2, <1>4, <1>5, Zenon
  <2>2. CASE o # new
    <3>1. o \in has[m] /\ has[m] \subseteq has'[m]
      BY <2>2, <1>2
    <3>2. object'[o] = object[o]
      BY <3>1, <1>1, <1>3, Zenon
    <3>3. object[o].prior \in has[m] /\ object[object[o].prior].subj = object[o].subj
      BY <3>1, <3>2, ZenonT(40) DEF ChainInv, ChainHeldWhole
    <3> QED
      BY <3>1, <3>2, <3>3, <1>1, <1>3, ZenonT(40)
  <2> QED
    BY <2>1, <2>2
<1> QED
  BY <1>6, <1>7, <1>8 DEF ChainInv

LEMMA ChainStep == ASSUME Placed PROVE ChainInv /\ [StatusNext]_statusVars => ChainInv'
<1> SUFFICES ASSUME ChainInv, [StatusNext]_statusVars PROVE ChainInv'
  OBVIOUS
<1>t. StatusTypes /\ StatusTypes'
  BY StatusTypesStep DEF ChainInv
<1>1. ASSUME NEW i \in Issuers, UserStatusCommits(i) \/ ThreadStatusCommits(i) PROVE ChainInv'
  <2>1. /\ IssuerAt[i] \in Nodes /\ draft[i].locks \in BOOLEAN /\ draft[i].at \in Nat /\ clock \in Nat
        /\ "user" \in Subjects /\ "thread" \in Subjects
    BY <1>t DEF Placed, StatusTypes, Subjects
  <2> QED
    BY <1>1, <1>t, <2>1, ChainIssued, Zenon DEF UserStatusCommits, ThreadStatusCommits
<1>2. ASSUME NEW p \in Pushes, PushCommits(p) PROVE ChainInv'
  <2> DEFINE n == PushAt[p]
             o == push[p]
             s == object[o].subj
  <2>1. /\ n \in Nodes /\ o \in Objects /\ s \in Subjects /\ UNCHANGED object
        /\ \/ UNCHANGED <<has, head>>
           \/ /\ PriorHeld(n, o) /\ has' = [has EXCEPT ![n] = @ \union {o}]
              /\ head' = [head EXCEPT ![n][s] = IF Wins(o, @) THEN o ELSE @]
    BY <1>2, <1>t, PushStores
  <2>2. CASE UNCHANGED <<has, head>>
    BY <2>1, <2>2, <1>t DEF ChainInv, Linked, HeadsHeld, ChainHeldWhole, Objects
  <2>3. CASE /\ PriorHeld(n, o) /\ has' = [has EXCEPT ![n] = @ \union {o}]
             /\ head' = [head EXCEPT ![n][s] = IF Wins(o, @) THEN o ELSE @]
    <3>1. has'[n] = has[n] \union {o} /\ \A m \in Nodes \ {n} : has'[m] = has[m]
      BY <2>1, <2>3, <1>t, ZenonT(40) DEF StatusTypes
    <3>2. /\ head'[n][s] \in {head[n][s], o}
          /\ \A m \in Nodes, u \in Subjects : <<m, u>> # <<n, s>> => head'[m][u] = head[m][u]
      BY <2>1, <2>3, <1>t, ZenonT(40) DEF StatusTypes
    <3> HIDE DEF n, o
    <3>3. Linked'
      BY <2>1 DEF ChainInv, Linked, Objects
    <3>4. HeadsHeld'
      BY <2>1, <3>1, <3>2 DEF ChainInv, HeadsHeld
    <3>5. object[o].prior # None => object[o].prior \in has[n] /\ object[object[o].prior].subj = object[o].subj
      BY <2>1, <2>3 DEF PriorHeld, ChainInv, Linked
    <3>6. ChainHeldWhole'
      BY <2>1, <3>1, <3>5, ZenonT(30) DEF ChainInv, ChainHeldWhole
    <3> QED
      BY <1>t, <3>3, <3>4, <3>6, Zenon DEF ChainInv
  <2> QED
    BY <2>1, <2>2, <2>3
<1>3. CASE UNCHANGED <<object, has, head>>
  BY <1>3, <1>t, Zenon DEF ChainInv, Linked, HeadsHeld, ChainHeldWhole, Objects
<1> QED
  BY <1>1, <1>2, <1>3, Zenon DEF StatusNext, UserModerated, ThreadModerated, DispatchFails, PushArrives, Learn, ClockTicks,
                          statusVars

LEMMA ChainStarts == StatusInit => ChainInv
<1> SUFFICES ASSUME StatusInit PROVE ChainInv
  OBVIOUS
<1>1. object = <<>> /\ Objects = {}
  BY DEF StatusInit, Objects
<1>2. StatusTypes
  BY <1>1 DEF StatusInit, StatusTypes, NoDraft, None
<1> QED
  BY <1>1, <1>2, Zenon DEF StatusInit, ChainInv, Linked, HeadsHeld, ChainHeldWhole

\* No instance ever holds a status without its predecessor (the prior_hash check of
\* apply_one_user_status and apply_one_thread_status, and the issue under the lock).
THEOREM ChainsAreWhole == ASSUME Placed PROVE StatusSpec => []ChainHeldWhole
<1>1. StatusInit => ChainInv
  BY ChainStarts
<1>2. ChainInv /\ [StatusNext]_statusVars => ChainInv'
  BY ChainStep
<1>3. ChainInv => ChainHeldWhole
  BY DEF ChainInv
<1> QED
  BY <1>1, <1>2, <1>3, PTL DEF StatusSpec

-----------------------------------------------------------------------------
(* The head is the latest.                                                 *)

\* The order in which statuses win.
Newer(o, x) == object[o].at > object[x].at \/ (object[o].at = object[x].at /\ Hash(o) < Hash(x))

\* Inductive: where nothing was issued the head beats every other status held.
HeadBeats(n, s) ==
  Of(n, s) # {} /\ (\A o \in Of(n, s) : object[o].by # n) =>
    head[n][s] \in Of(n, s) /\ \A x \in Of(n, s) \ {head[n][s]} : Newer(head[n][s], x)
HeadInv == ChainInv /\ \A n \in Nodes, s \in Subjects : HeadBeats(n, s)

\* By time, latest first, then by hash.
LEMMA LexicalTotal ==
  \A a, b, p, q \in Int : p # q => ((a > b \/ (a = b /\ p < q)) <=> ~(b > a \/ (b = a /\ q < p)))
  OBVIOUS

\* The order is total and transitive on the objects, and has no cycles of two.
LEMMA NewerOrder ==
  ASSUME StatusTypes
  PROVE  /\ \A o, x \in Objects : o # x => (Newer(o, x) <=> ~Newer(x, o))
         /\ \A o, x, y \in Objects : Newer(o, x) /\ Newer(x, y) => Newer(o, y)
<1>1. \A o \in Objects : object[o].at \in Nat /\ o \in Nat
  <2>1. object \in Seq(ObjectType)
    BY Zenon DEF StatusTypes
  <2>2. \A o \in Objects : object[o] \in ObjectType /\ o \in Nat
    BY <2>1 DEF Objects
  <2> QED
    BY <2>2 DEF ObjectType
<1>2. \A o \in Objects : Hash(o) \in Int /\ object[o].at \in Int
  BY <1>1 DEF Hash
<1>3. \A o, x \in Objects : o # x => Hash(o) # Hash(x)
  BY <1>1 DEF Hash
<1>5. ASSUME NEW o \in Objects, NEW x \in Objects, o # x PROVE Newer(o, x) <=> ~Newer(x, o)
  BY <1>2, <1>3, <1>5, LexicalTotal DEF Newer
<1>6. ASSUME NEW o \in Objects, NEW x \in Objects, NEW y \in Objects, Newer(o, x), Newer(x, y) PROVE Newer(o, y)
  <2>1. /\ object[o].at \in Int /\ object[x].at \in Int /\ object[y].at \in Int
        /\ Hash(o) \in Int /\ Hash(x) \in Int /\ Hash(y) \in Int
    BY <1>2
  <2> QED
    BY <1>6, <2>1 DEF Newer
<1> QED
  BY <1>5, <1>6, Zenon

\* One status beats the others of a set: it is the one Latest chooses.
LEMMA LatestIs ==
  ASSUME StatusTypes, NEW S \in SUBSET Objects, NEW h \in S, \A x \in S \ {h} : Newer(h, x)
  PROVE  h = Latest(S)
<1>1. \A o \in S : (\A x \in S \ {o} : Newer(o, x)) => o = h
  BY NewerOrder
<1>2. Latest(S) = CHOOSE o \in S : \A x \in S \ {o} : Newer(o, x)
  BY DEF Latest, Newer
<1> QED
  BY <1>1, <1>2

LEMMA HeadIssued ==
  ASSUME HeadInv, ChainInv', UNCHANGED rising, NEW n \in Nodes, NEW s \in Subjects, NEW l \in BOOLEAN, NEW t \in Nat,
         Issue(n, s, l, t)
  PROVE  HeadInv'
<1> DEFINE new == Len(object) + 1
<1>t. StatusTypes
  BY DEF HeadInv, ChainInv
<1>1. /\ object'[new] = [subj |-> s, by |-> n, at |-> t, prior |-> head[n][s], locks |-> l]
      /\ \A o \in Objects : object'[o] = object[o]
      /\ new \notin Objects
  BY <1>t, IssueAppends, Zenon
<1>2. /\ has'[n] = has[n] \union {new}
      /\ \A m \in Nodes \ {n} : has'[m] = has[m]
      /\ \A m \in Nodes, u \in Subjects : <<m, u>> # <<n, s>> => head'[m][u] = head[m][u]
  <2>1. \A m \in Nodes, u \in Subjects : <<m, u>> # <<n, s>> => head'[m][u] = head[m][u]
    BY <1>t, IssueMovesOneHead, Zenon
  <2>2. head'[n][s] = new
    BY <1>t, IssueStoresOne, Zenon
  <2>3. has'[n] = has[n] \union {new} /\ \A m \in Nodes \ {n} : has'[m] = has[m]
    BY <1>t, IssueStoresOne, Zenon
  <2> QED
    BY <2>1, <2>2, <2>3, Zenon
<1>3. \A m \in Nodes : has[m] \subseteq Objects
  BY <1>t, Zenon DEF StatusTypes
<1>4. object'[new].subj = s /\ object'[new].by = n
  BY <1>t, IssueFields, Zenon
<1> HIDE DEF new
<1> SUFFICES ASSUME NEW m \in Nodes, NEW u \in Subjects PROVE HeadBeats(m, u)'
  BY Zenon DEF HeadInv
<1>5. CASE <<m, u>> = <<n, s>>
  <2>1. new \in Of(n, s)'
    BY <1>2, <1>4, ZenonT(40) DEF Of
  <2> QED
    BY <1>4, <1>5, <2>1, ZenonT(40) DEF HeadBeats
<1>6. CASE <<m, u>> # <<n, s>>
  <2>1. Of(m, u)' = Of(m, u)
    <3>1. \A o \in Objects : o \in has'[m] <=> o \in has[m]
      BY <1>1, <1>2, Zenon
    <3>2. \A o \in has'[m] : object'[o].subj = u => o \in Objects
      BY <1>2, <1>3, <1>4, <1>6, ZenonT(40)
    <3> QED
      BY <3>1, <3>2, <1>1, <1>3, ZenonT(40) DEF Of
  <2>2. \A o \in Of(m, u) : object'[o] = object[o]
    BY <1>1, <1>3, Zenon DEF Of
  <2>3. \A o, x \in Of(m, u) : Newer(o, x)' <=> Newer(o, x)
    BY <2>2, ZenonT(40) DEF Newer, Hash
  <2>4. HeadBeats(m, u) /\ head'[m][u] = head[m][u]
    BY <1>2, <1>6, Zenon DEF HeadInv
  <2> QED
    BY <2>1, <2>2, <2>3, <2>4, ZenonT(40) DEF HeadBeats
<1> QED
  BY <1>5, <1>6

LEMMA HeadStep == ASSUME Placed PROVE HeadInv /\ [StatusNext]_statusVars => HeadInv'
<1> SUFFICES ASSUME HeadInv, [StatusNext]_statusVars PROVE HeadInv'
  OBVIOUS
<1>t. ChainInv /\ ChainInv' /\ StatusTypes
  BY ChainStep DEF HeadInv, ChainInv
<1>1. ASSUME NEW i \in Issuers, UserStatusCommits(i) \/ ThreadStatusCommits(i) PROVE HeadInv'
  <2>1. /\ IssuerAt[i] \in Nodes /\ draft[i].locks \in BOOLEAN /\ draft[i].at \in Nat /\ clock \in Nat
        /\ "user" \in Subjects /\ "thread" \in Subjects
    BY <1>t, Zenon DEF Placed, StatusTypes, Subjects
  <2> QED
    BY <1>1, <1>t, <2>1, HeadIssued, Zenon DEF UserStatusCommits, ThreadStatusCommits
<1>2. ASSUME NEW p \in Pushes, PushCommits(p) PROVE HeadInv'
  <2>a. /\ PushAt[p] \in Nodes /\ push[p] \in Objects /\ object[push[p]].subj \in Subjects
        /\ UNCHANGED <<object, rising>>
        /\ \/ UNCHANGED <<has, head>>
           \/ /\ has' = [has EXCEPT ![PushAt[p]] = @ \union {push[p]}]
              /\ head' = [head EXCEPT ![PushAt[p]][object[push[p]].subj] = IF Wins(push[p], @) THEN push[p] ELSE @]
    BY <1>2, <1>t, PushStores, ZenonT(40)
  <2>n. PICK n \in Nodes : n = PushAt[p]
    BY <2>a, Zenon
  <2>o. PICK o \in Objects : o = push[p]
    BY <2>a
  <2>s. PICK s \in Subjects : s = object[o].subj
    BY <2>a, <2>o
  <2>1. /\ s = object[o].subj /\ UNCHANGED <<object, rising>>
        /\ \/ UNCHANGED <<has, head>>
           \/ /\ has' = [has EXCEPT ![n] = @ \union {o}]
              /\ head' = [head EXCEPT ![n][s] = IF Wins(o, @) THEN o ELSE @]
    BY <2>a, <2>n, <2>o, <2>s, ZenonT(40)
  <2>2. CASE UNCHANGED <<has, head>>
    <3>1. ASSUME NEW m \in Nodes, NEW u \in Subjects PROVE HeadBeats(m, u)'
      <4>1. HeadBeats(m, u)
        BY Zenon DEF HeadInv
      <4> QED
        BY <2>1, <2>2, <4>1, Zenon DEF HeadBeats, Of, Newer, Hash
    <3> QED
      BY <1>t, <3>1, Zenon DEF HeadInv
  <2>3. CASE /\ has' = [has EXCEPT ![n] = @ \union {o}]
             /\ head' = [head EXCEPT ![n][s] = IF Wins(o, @) THEN o ELSE @]
    <3>1. has'[n] = has[n] \union {o} /\ \A m \in Nodes \ {n} : has'[m] = has[m]
      BY <2>1, <2>3, <1>t, Zenon DEF StatusTypes
    <3>2. /\ head'[n][s] = IF Wins(o, head[n][s]) THEN o ELSE head[n][s]
          /\ \A m \in Nodes, u \in Subjects : <<m, u>> # <<n, s>> => head'[m][u] = head[m][u]
      BY <2>1, <2>3, <1>t DEF StatusTypes
    <3>3. \A x, y : Newer(x, y)' <=> Newer(x, y)
      BY <2>1 DEF Newer, Hash
    <3> SUFFICES ASSUME NEW m \in Nodes, NEW u \in Subjects PROVE HeadBeats(m, u)'
      BY <1>t DEF HeadInv
    <3>4. HeadBeats(m, u)
      BY DEF HeadInv
    <3>5. CASE <<m, u>> # <<n, s>>
      <4>1. Of(m, u)' = Of(m, u)
        BY <2>1, <3>1, <3>5, Zenon DEF Of
      <4> QED
        BY <2>1, <3>2, <3>3, <3>4, <3>5, <4>1, ZenonT(40) DEF HeadBeats
    <3>6. CASE <<m, u>> = <<n, s>>
      <4>1. Of(n, s)' = Of(n, s) \union {o} /\ m = n /\ u = s
        BY <2>1, <3>1, <3>6 DEF Of
      <4> SUFFICES ASSUME \A x \in Of(n, s)' : object'[x].by # n
                   PROVE  (head[n][s] \in Of(n, s) /\ \A x \in Of(n, s) \ {head[n][s]} : Newer(head[n][s], x))'
        BY <4>1, Zenon DEF HeadBeats
      <4>2. Of(n, s) \subseteq Objects
        BY <2>1, <1>t, ZenonT(40) DEF StatusTypes, Of
      <4>3. CASE Of(n, s) = {}
        <5>1. head[n][s] = None
          BY <4>3, <2>1, <1>t DEF ChainInv, HeadsHeld, Of
        <5>2. head'[n][s] = o
          BY <5>1, <3>2, ZenonT(40) DEF Wins
        <5> QED
          BY <5>2, <4>1, <4>3, ZenonT(40)
      <4>4. CASE Of(n, s) # {}
        <5>1. head[n][s] \in Of(n, s) /\ \A x \in Of(n, s) \ {head[n][s]} : Newer(head[n][s], x)
          BY <4>1, <4>4, <3>4, <2>1, Zenon DEF HeadBeats
        <5>2. head[n][s] \in Objects /\ head[n][s] # None
          BY <5>1, <4>2, <1>t DEF StatusTypes, Objects, None
        <5>3. Wins(o, head[n][s]) <=> Newer(o, head[n][s])
          BY <5>2, Zenon DEF Wins, Newer
        <5>4. CASE Newer(o, head[n][s])
          <6>1. head'[n][s] = o
            BY <5>3, <5>4, <3>2, Zenon
          <6>2. \A x \in Of(n, s) \ {o} : Newer(o, x)
            BY <5>1, <5>2, <5>4, <4>2, <2>1, <1>t, NewerOrder, Zenon
          <6> QED
            BY <6>1, <6>2, <4>1, <2>1, Zenon DEF Newer, Hash
        <5>5. CASE ~Newer(o, head[n][s])
          <6>1. head'[n][s] = head[n][s]
            BY <5>3, <5>5, <3>2, Zenon
          <6>2. o # head[n][s] => Newer(head[n][s], o)
            BY <5>2, <5>5, <2>1, <1>t, NewerOrder
          <6> QED
            BY <6>1, <6>2, <5>1, <4>1, <2>1, ZenonT(40) DEF Newer, Hash
        <5> QED
          BY <5>4, <5>5, Zenon
      <4> QED
        BY <4>3, <4>4, ZenonT(40)
    <3> QED
      BY <3>5, <3>6
  <2> QED
    BY <2>1, <2>2, <2>3
<1>3. CASE UNCHANGED <<object, has, head, rising>>
  <2>1. ASSUME NEW n \in Nodes, NEW s \in Subjects PROVE HeadBeats(n, s)'
    <3>1. HeadBeats(n, s)
      BY DEF HeadInv
    <3> QED
      BY <1>3, <3>1, Zenon DEF HeadBeats, Of, Newer, Hash
  <2> QED
    BY <1>t, <2>1, Zenon DEF HeadInv
<1> QED
  BY <1>1, <1>2, <1>3, Zenon DEF StatusNext, UserModerated, ThreadModerated, DispatchFails, PushArrives, Learn, ClockTicks,
                          statusVars

\* Whatever the order and the number of copies that arrive, an instance that issued none
\* of the statuses it holds of a subject has the latest of them as its head
\* (the latest-wins update of apply_one_user_status and apply_one_thread_status).
THEOREM ReceiversConverge == ASSUME Placed PROVE StatusSpec => []HeadIsLatest
<1>1. StatusInit => HeadInv
  <2> SUFFICES ASSUME StatusInit PROVE HeadInv
    OBVIOUS
  <2>1. \A n \in Nodes, s \in Subjects : Of(n, s) = {}
    BY DEF StatusInit, Of
  <2> QED
    BY <2>1, ChainStarts DEF HeadInv, HeadBeats
<1>2. HeadInv /\ [StatusNext]_statusVars => HeadInv'
  BY HeadStep
<1>3. HeadInv => HeadIsLatest
  <2> SUFFICES ASSUME HeadInv, NEW n \in Nodes, NEW s \in Subjects, Of(n, s) # {},
                      \A o \in Of(n, s) : object[o].by # n
               PROVE  head[n][s] = Latest(Of(n, s))
    BY DEF HeadIsLatest
  <2>1. head[n][s] \in Of(n, s) /\ \A x \in Of(n, s) \ {head[n][s]} : Newer(head[n][s], x)
    BY ZenonT(40) DEF HeadInv, HeadBeats
  <2>2. StatusTypes /\ Of(n, s) \in SUBSET Objects
    BY DEF HeadInv, ChainInv, StatusTypes, Of
  <2>3. PICK S : S = Of(n, s)
    BY Zenon
  <2>4. PICK h : h = head[n][s]
    BY Zenon
  <2>5. S \in SUBSET Objects /\ h \in S /\ \A x \in S \ {h} : Newer(h, x)
    BY <2>1, <2>2, <2>3, <2>4, Zenon
  <2>6. h = Latest(S)
    BY <2>2, <2>5, LatestIs, Zenon
  <2> QED
    BY <2>3, <2>4, <2>6, Zenon
<1> QED
  BY <1>1, <1>2, <1>3, PTL DEF StatusSpec

-----------------------------------------------------------------------------
(* The lock.                                                               *)

\* Inductive: only the home of the thread sets its column by itself.
LockInv ==
  /\ ChainInv /\ LockMirrorsHead
  /\ \A i \in Issuers : draft[i].pc = "set" => IssuerAt[i] = OldHome

LEMMA LockStep == ASSUME Placed PROVE LockInv /\ [StatusNext]_statusVars => LockInv'
<1> SUFFICES ASSUME LockInv, [StatusNext]_statusVars PROVE LockInv'
  OBVIOUS
<1>t. ChainInv /\ ChainInv' /\ StatusTypes
  BY ChainStep DEF LockInv, ChainInv
<1>d. topic' = topic /\ \A i \in Issuers : draft'[i].pc = "set" => IssuerAt[i] = OldHome
  <2>1. ASSUME NEW i \in Issuers, UserModerated(i) PROVE \A j \in Issuers : draft'[j].pc = "set" => IssuerAt[j] = OldHome
    BY <2>1, <1>t DEF UserModerated, LockInv, StatusTypes
  <2>2. ASSUME NEW i \in Issuers, ThreadModerated(i) PROVE \A j \in Issuers : draft'[j].pc = "set" => IssuerAt[j] = OldHome
    BY <2>2, <1>t, Zenon DEF ThreadModerated, LockInv, StatusTypes
  <2>3. ASSUME NEW i \in Issuers, draft' = [draft EXCEPT ![i] = NoDraft]
        PROVE  \A j \in Issuers : draft'[j].pc = "set" => IssuerAt[j] = OldHome
    BY <2>3, <1>t DEF LockInv, StatusTypes, NoDraft
  <2>4. ASSUME draft' = draft PROVE \A j \in Issuers : draft'[j].pc = "set" => IssuerAt[j] = OldHome
    BY <2>4 DEF LockInv
  <2>5. topic' = topic
    BY ZenonT(40) DEF StatusNext, UserModerated, UserStatusCommits, ThreadModerated, ThreadStatusCommits, DispatchFails,
           PushArrives, PushCommits, Learn, ClockTicks, statusVars
  <2> QED
    BY <2>1, <2>2, <2>3, <2>4, <2>5, Zenon DEF StatusNext, UserStatusCommits, ThreadStatusCommits, DispatchFails,
       PushArrives, PushCommits, Learn, ClockTicks, statusVars
<1>1. ASSUME NEW i \in Issuers, UserStatusCommits(i) \/ ThreadStatusCommits(i) PROVE LockInv'
  <2>1. /\ IssuerAt[i] \in Nodes /\ draft[i].locks \in BOOLEAN /\ draft[i].at \in Nat /\ clock \in Nat
        /\ "user" \in Subjects /\ "thread" \in Subjects /\ "user" # "thread"
    BY <1>t, Zenon DEF Placed, StatusTypes, Subjects
  <2>2. ASSUME NEW s \in Subjects, NEW t \in Nat, Issue(IssuerAt[i], s, draft[i].locks, t),
               s = "thread" => IssuerAt[i] = OldHome
        PROVE  \A n \in Nodes \ {OldHome} :
          head'[n]["thread"] = head[n]["thread"] /\ (head[n]["thread"] # None => object'[head[n]["thread"]] = object[head[n]["thread"]])
    <3>1. \A m \in Nodes, u \in Subjects : <<m, u>> # <<IssuerAt[i], s>> => head'[m][u] = head[m][u]
      BY <2>1, <2>2, <1>t, IssueMovesOneHead, Zenon
    <3>2. \A o \in Objects : object'[o] = object[o]
      BY <2>1, <2>2, <1>t, IssueAppends, Zenon
    <3>3. \A n \in Nodes : head[n]["thread"] # None => head[n]["thread"] \in Objects
      BY <2>1, <1>t, ZenonT(40) DEF ChainInv, HeadsHeld, StatusTypes
    <3> SUFFICES ASSUME NEW n \in Nodes \ {OldHome}
                 PROVE  /\ head'[n]["thread"] = head[n]["thread"]
                        /\ head[n]["thread"] # None => object'[head[n]["thread"]] = object[head[n]["thread"]]
      BY Zenon
    <3>4. <<n, "thread">> # <<IssuerAt[i], s>>
      BY <2>2, Zenon
    <3>5. head'[n]["thread"] = head[n]["thread"]
      BY <2>1, <3>1, <3>4, Zenon
    <3> QED
      BY <3>2, <3>3, <3>5, Zenon
  <2>3. \A n \in Nodes \ {OldHome} :
          head'[n]["thread"] = head[n]["thread"] /\ (head[n]["thread"] # None => object'[head[n]["thread"]] = object[head[n]["thread"]])
    <3>1. CASE UserStatusCommits(i)
      BY <3>1, <2>1, <2>2, ZenonT(40) DEF UserStatusCommits
    <3>2. CASE ThreadStatusCommits(i)
      BY <3>2, <2>1, <2>2, ZenonT(40) DEF ThreadStatusCommits, LockInv
    <3> QED
      BY <1>1, <3>1, <3>2, ZenonT(40)
  <2>4. locked' = locked
    BY <1>1, Zenon DEF UserStatusCommits, ThreadStatusCommits
  <2>5. LockMirrorsHead'
    <3> SUFFICES ASSUME NEW n \in Nodes \ {OldHome}, topic = "thread"
                 PROVE  locked'[n] <=> head'[n]["thread"] # None /\ object'[head'[n]["thread"]].locks
      BY <1>d, ZenonT(40) DEF LockMirrorsHead
    <3>1. locked[n] <=> head[n]["thread"] # None /\ object[head[n]["thread"]].locks
      BY ZenonT(40) DEF LockInv, LockMirrorsHead
    <3>2. head'[n]["thread"] = head[n]["thread"] /\ locked'[n] = locked[n]
      BY <2>3, <2>4
    <3>3. CASE head[n]["thread"] = None
      BY <3>1, <3>2, <3>3, Zenon
    <3>4. CASE head[n]["thread"] # None
      <4>1. object'[head[n]["thread"]] = object[head[n]["thread"]]
        BY <2>3, <3>4
      <4> QED
        BY <3>1, <3>2, <3>4, <4>1, Zenon
    <3> QED
      BY <3>3, <3>4, ZenonT(40)
  <2> QED
    BY <1>t, <1>d, <2>5, Zenon DEF LockInv
<1>2. ASSUME NEW p \in Pushes, PushCommits(p) PROVE LockInv'
  <2>a. /\ PushAt[p] \in Nodes /\ push[p] \in Objects /\ object[push[p]].subj \in Subjects /\ UNCHANGED object
        /\ \/ UNCHANGED <<has, head, locked>>
           \/ /\ head' = [head EXCEPT ![PushAt[p]][object[push[p]].subj] = IF Wins(push[p], @) THEN push[p] ELSE @]
              /\ locked' = [locked EXCEPT ![PushAt[p]] = LockAfter(PushAt[p], push[p])]
    BY <1>2, <1>t, PushStores, ZenonT(40)
  <2>n. PICK n \in Nodes : n = PushAt[p]
    BY <2>a
  <2>o. PICK o \in Objects : o = push[p]
    BY <2>a, Zenon
  <2>s. PICK s \in Subjects : s = object[o].subj
    BY <2>a, <2>o
  <2>1. CASE UNCHANGED <<head, locked>>
    <3>1. LockMirrorsHead'
      BY <2>a, <2>1, <1>d, ZenonT(40) DEF LockInv, LockMirrorsHead
    <3> QED
      BY <1>t, <1>d, <3>1 DEF LockInv
  <2>2. CASE /\ head' = [head EXCEPT ![n][s] = IF Wins(o, @) THEN o ELSE @]
             /\ locked' = [locked EXCEPT ![n] = LockAfter(n, o)]
    <3>1. /\ head'[n][s] = IF Wins(o, head[n][s]) THEN o ELSE head[n][s]
          /\ \A m \in Nodes, u \in Subjects : <<m, u>> # <<n, s>> => head'[m][u] = head[m][u]
          /\ locked'[n] = LockAfter(n, o) /\ \A m \in Nodes \ {n} : locked'[m] = locked[m]
      BY <2>2, <1>t, Zenon DEF StatusTypes
    <3>2. o # None /\ "thread" \in Subjects
      BY DEF Objects, None, Subjects
    <3> SUFFICES ASSUME NEW m \in Nodes \ {OldHome}, topic = "thread"
                 PROVE  locked'[m] <=> head'[m]["thread"] # None /\ object'[head'[m]["thread"]].locks
      BY <1>t, <1>d DEF LockInv, LockMirrorsHead
    <3>3. locked[m] <=> head[m]["thread"] # None /\ object[head[m]["thread"]].locks
      BY ZenonT(40) DEF LockInv, LockMirrorsHead
    <3>4. CASE m = n /\ s = "thread" /\ Wins(o, head[n]["thread"])
      BY <3>1, <3>2, <3>4, <2>a, <2>s, ZenonT(40) DEF LockAfter
    <3>5. CASE m = n /\ ~(s = "thread" /\ Wins(o, head[n]["thread"]))
      <4>1. locked'[m] = locked[m]
        BY <3>1, <3>5, <2>s, Zenon DEF LockAfter
      <4>2. head'[m]["thread"] = head[m]["thread"]
        BY <3>1, <3>2, <3>5, Zenon
      <4> QED
        BY <3>3, <4>1, <4>2, <2>a, ZenonT(40)
    <3>6. CASE m # n
      BY <3>1, <3>2, <3>3, <3>6, <2>a, Zenon
    <3> QED
      BY <3>4, <3>5, <3>6, Zenon
  <2> QED
    BY <2>a, <2>n, <2>o, <2>s, <2>1, <2>2, Zenon
<1>3. ASSUME NEW i \in Issuers, ThreadModerated(i) PROVE LockInv'
  <2>1. \A n \in Nodes \ {OldHome} : locked'[n] = locked[n]
    BY <1>3, <1>t, Zenon DEF ThreadModerated, StatusTypes
  <2>2. LockMirrorsHead'
    BY <1>3, <1>d, <2>1, Zenon DEF ThreadModerated, LockInv, LockMirrorsHead
  <2> QED
    BY <1>t, <1>d, <2>2, Zenon DEF LockInv
<1>4. CASE UNCHANGED <<object, head, locked>>
  <2>1. LockMirrorsHead'
    BY <1>4, <1>d, Zenon DEF LockInv, LockMirrorsHead
  <2> QED
    BY <1>t, <1>d, <2>1, ZenonT(40) DEF LockInv
<1> QED
  BY <1>1, <1>2, <1>3, <1>4, ZenonT(40) DEF StatusNext, UserModerated, DispatchFails, PushArrives, Learn, ClockTicks, statusVars

\* Away from its home a thread is locked exactly when its head says so: "the handler
\* mirrors the resolved lock state into threads.locked" (apply_one_thread_status).
THEOREM LockFollowsHead == ASSUME Placed PROVE StatusSpec => []LockMirrorsHead
<1>1. StatusInit => LockInv
  <2> SUFFICES ASSUME StatusInit PROVE LockInv
    OBVIOUS
  <2>1. LockMirrorsHead
    BY DEF StatusInit, LockMirrorsHead, Subjects
  <2> QED
    BY <2>1, ChainStarts, Zenon DEF StatusInit, LockInv, NoDraft
<1>2. LockInv /\ [StatusNext]_statusVars => LockInv'
  BY LockStep
<1>3. LockInv => LockMirrorsHead
  BY DEF LockInv
<1> QED
  BY <1>1, <1>2, <1>3, PTL DEF StatusSpec

-----------------------------------------------------------------------------

\* Whatever order statuses are issued, pushed and repeated in, and whatever a move does to
\* the right to issue them, every instance holds whole chains, every receiver has the
\* latest status as its head, and a thread is locked where its head says so.
THEOREM InstancesConverge == ASSUME Placed PROVE StatusSpec => []StatusConverges
<1>1. ChainHeldWhole /\ HeadIsLatest /\ LockMirrorsHead => StatusConverges
  BY DEF StatusConverges
<1> QED
  BY <1>1, ChainsAreWhole, ReceiversConverge, LockFollowsHead, PTL
=============================================================================
