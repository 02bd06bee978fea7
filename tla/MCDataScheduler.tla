--------------------------- MODULE MCDataScheduler ---------------------------
(* Model values and source orders for the TLC runs of DataScheduler: news is a  *)
(* normalized news source (extra another), wire the IBKR news source, prices    *)
(* the IBKR price worker, series and dates two macro sources.                   *)
EXTENDS DataScheduler, TLC

CONSTANTS news, extra, wire, prices, series, dates, worker1, worker2, cli1

OrderNews    == <<news>>
OrderAll     == <<wire, prices, series, dates>>
OrderMarket  == <<news, extra, prices>>
OrderPair    == <<news, prices>>

\* the sidecar's thread slots are interchangeable
SlotSymmetry == Permutations(SidecarSlots)
=============================================================================
