---------------------------- MODULE MCRecommendation ----------------------------
(* Recommendation for TLC: a deployment of one replica on real nodes, of   *)
(* two on virtual ones or of none, a daemon set, a job, or a pod of its    *)
(* own, with and without requests and limits of each resource; containers  *)
(* that idle at times, that are busy throughout, and that are not known;   *)
(* with the margin of a quarter, the default.                              *)
EXTENDS Recommendation, TLC

CONSTANTS w1, w2, main, sidecar, n1, n2

Given(cpu, mem) == [r \in (IF cpu = 0 THEN {} ELSE {"cpu"}) \cup
                          (IF mem = 0 THEN {} ELSE {"mem"}) |->
                       IF r = "cpu" THEN cpu ELSE mem]
(* Requests of 0 stand for none; a limit is none or that many times the    *)
(* request.  One container requests zero, which is not the same as none.   *)
MCResources ==
    {[requests |-> Given(q[1], q[2]), limits |-> Given(q[1] * l[1], q[2] * l[2])] :
        q \in {<<0, 0>>, <<2, 0>>, <<2, 3>>}, l \in {<<0, 0>>, <<2, 1>>, <<1, 2>>, <<0, 3>>}}
    \cup {[requests |-> "cpu" :> 0, limits |-> "cpu" :> 2]}
Stat(p, m) == [percentile |-> p, max |-> m]
MCUsages == {[cpu |-> Stat(0, 3), mem |-> Stat(5, 9)], [cpu |-> Stat(2, 2), mem |-> Stat(3, 3)],
             NoData}
MCSpecs ==
    {[kind |-> k[1], onVirtualNode |-> k[2], goodsNum |-> k[3], containers |-> cs] :
        k \in {<<"Deployment", FALSE, 1>>, <<"Deployment", TRUE, 2>>, <<"DaemonSet", FALSE, 2>>,
              <<"Job", TRUE, 1>>, <<"Pod", TRUE, 1>>, <<"Deployment", FALSE, 0>>},
        cs \in [Containers -> MCResources]}
MCBestEffortPod == [r \in Resources |-> IF r = "cpu" THEN 4 ELSE 8]
(* The name of one workload begins with that of the other. *)
MCName == (w1 :> <<"web">>) @@ (w2 :> <<"web", "-", "api">>)
MCMargin == <<5, 4>>
MCOfNoNumber == -1000   \* for the least int64, below everything else
MCNodePrices == (n1 :> 7) @@ (n2 :> 5)
MCClusterPriceModel == <<[Nodes |-> 1, PriceHourly |-> 1], [Nodes |-> 5, PriceHourly |-> 3]>>
=============================================================================
