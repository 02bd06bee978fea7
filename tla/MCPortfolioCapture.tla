-------------------------- MODULE MCPortfolioCapture --------------------------
EXTENDS PortfolioCapture, TLC
CONSTANTS p1, p2, c1, c2, a1
MCHost == (c1 :> p1) @@ (c2 :> p2)
=============================================================================
