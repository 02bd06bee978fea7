------------------------- MODULE MCIdentityTransitions -------------------------
EXTENDS IdentityTransitions
CONSTANTS k1, k2, k3, l1

Plan(s, t) == [source |-> s, successor |-> t]

\* A chain with a delisting at its end, and a second ticker that joins it.
MCPlans == {Plan(k1, k2), Plan(k2, k3), Plan(k2, None), Plan(k3, k2)}

\* k1 is tracked; either k2 may be, or may have been, or k3 is.
MCOrigins == {o \in [Keys -> States] :
                /\ o[<<l1, k1>>] = "on"
                /\ o[<<l1, k3>>] \in {"none", "on"}
                /\ o[<<l1, k3>>] = "on" => o[<<l1, k2>>] = "none"
                /\ \A t \in Tickers : o[<<Meta, t>>] = "none"}

MCHoldings == {{}, {k1}}
=============================================================================
