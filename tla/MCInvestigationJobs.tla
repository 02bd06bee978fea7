-------------------------- MODULE MCInvestigationJobs --------------------------
(* Model values for the TLC run of InvestigationJobs: two requests for one   *)
(* ticker.                                                                   *)
EXTENDS InvestigationJobs, TLC

CONSTANTS j1, j2, c1, c2, k1, m1, m2

\* the requests ask for one ticker, so they are interchangeable too
Symmetry == Permutations(Jobs) \cup Permutations(Controllers) \cup Permutations(CallIds)

MCTickerOf == [j \in Jobs |-> k1]
=============================================================================
