--------------------------- MODULE MCCostExporter ---------------------------
(* CostExporter for TLC: two nodes, instances of one offer with two        *)
(* prices, and a price and labels of their own for nodes that the cache    *)
(* does not know.  The cache may be out of date in any way at the start.   *)
EXTENDS CostExporter

CONSTANTS n1, n2, small, priced, unpriced

MCInstances == {n1, n2}
MCOffers == {small}
MCPricedLabels == [o \in MCOffers |-> priced]
=============================================================================
