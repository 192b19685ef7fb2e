---------------------------- MODULE HomeRegister ----------------------------
(***************************************************************************)
(* What an instance promises about the home of a user: a register that     *)
(* holds the latest of the move declarations it has seen.  The promise     *)
(* ends when the instance writes a declaration of its own into it.         *)
(***************************************************************************)
CONSTANTS AllMoves, NoMove, Beats(_, _)

VARIABLES seen, best, forced

\* m is in the set and beats every other member.
IsBest(m, S) == m \in S /\ \A n \in S \ {m} : Beats(m, n)

RegisterInit ==
  /\ forced = FALSE
  /\ \/ seen = {} /\ best = NoMove
     \/ \E m \in AllMoves : seen = {m} /\ best = m

Learn ==
  /\ forced' = FALSE
  /\ \E m \in AllMoves : seen' = seen \union {m}
  /\ IsBest(best', seen')

Force == forced' = TRUE

RegisterNext == Learn \/ Force

RegisterSpec == RegisterInit /\ [][RegisterNext]_<<seen, best, forced>>
=============================================================================
