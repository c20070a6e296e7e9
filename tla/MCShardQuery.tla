---------------------------- MODULE MCShardQuery ----------------------------
(* The proxies with ShardQuery behind one of them, for TLC: every window   *)
(* from 0 that ends by MaxEnd, with steps of one and two seconds, an empty *)
(* and an odd one; a series without gaps, and one that appears late, ends  *)
(* early or has holes.                                                     *)
EXTENDS DataSourceProxy

CONSTANTS MaxEnd, full, gappy, metricserver, qcloudmonitor

MCNames == [realtime |-> <<metricserver, prom, qcloudmonitor>>,
            history  |-> <<prom, qcloudmonitor>>]
MCWindows == [start : {0}, end : 0..MaxEnd, step : {1, 2}] \cup
             {[start |-> 1, end |-> 0, step |-> 1], [start |-> 1, end |-> MaxEnd, step |-> 2]}
MCHistories ==
    {[k \in Keys |-> IF k = full THEN 0..MaxEnd ELSE h] :
        h \in {0..2, 3..MaxEnd, {t \in 0..MaxEnd : t % 3 = 0}}}
=============================================================================
