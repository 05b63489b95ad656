--------------------------- MODULE MCLeaderboard ----------------------------
(***************************************************************************)
(* Instances of Leaderboard for TLC: the workers may be exchanged where no *)
(* liveness is checked.                                                    *)
(***************************************************************************)
EXTENDS Leaderboard, TLC

WorkerSymmetry == Permutations(Workers)

=============================================================================
