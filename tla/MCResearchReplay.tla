--------------------------- MODULE MCResearchReplay ---------------------------
(* Model values for the TLC run of ResearchReplay. *)
EXTENDS ResearchReplay

CONSTANTS t1, r1, r2, s1, s2
=============================================================================
