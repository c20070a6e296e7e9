----------------------------- MODULE MCNodeCost -----------------------------
(* NodeCost for TLC: default prices of zero, NaN and two numbers; nodes    *)
(* with one or two cores and a part of their instance's memory; instances  *)
(* of every charge type, one without a description of its cores.           *)
EXTENDS NodeCost

MCCustomPricings == [cpu : {Zero, <<3, 10>>, NaN}, ram : {Zero, <<1, 10>>, NaN}]
MCCapacities ==
    {[cpu |-> Number(1), ram |-> <<3, 2>>], [cpu |-> Number(2), ram |-> <<7, 4>>]}
MCCachedInstances ==
    [cpu : {Number(2), Unset}, ram : {Number(2)},
     chargeType : {"PREPAID", "POSTPAID_BY_HOUR", "OTHER"},
     OriginalPrice : {Number(360)}, UnitPrice : {Zero, <<7, 10>>}]
MCPodSpecs == [cpu : {<<1, 4>>, Number(2)}, ram : {<<1, 2>>, Number(4)}]
MCPodCosts == {Zero, Number(5), Number(37)}
=============================================================================
