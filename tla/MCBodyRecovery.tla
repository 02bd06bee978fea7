---------------------------- MODULE MCBodyRecovery ----------------------------
(* Model values for the TLC runs of BodyRecovery. *)
EXTENDS BodyRecovery, TLC

CONSTANTS b1, b2, j1, j2, t1, t2

CallerSymmetry == Permutations(Clients) \cup Permutations(Jobs) \cup Permutations(Tasks)
=============================================================================
