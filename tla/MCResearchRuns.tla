---------------------------- MODULE MCResearchRuns ----------------------------
(* Model values for the TLC runs of ResearchRuns. *)
EXTENDS ResearchRuns

CONSTANTS t1, t2, r1, r2, s1, s2
=============================================================================
