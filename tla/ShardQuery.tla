----------------------------- MODULE ShardQuery -----------------------------
(***************************************************************************)
(* A range query of the Prometheus data source: QueryTimeSeries calls      *)
(* QueryRangeSync, which asks the server directly when the window fits     *)
(* into one shard, and otherwise starts one goroutine per shard            *)
(* (queryByShards), waits for all of them, and merges what the channel     *)
(* holds in the order in which the goroutines answered.                    *)
(*                                                                         *)
(* What a goroutine gets from the server, and whether it gets anything, is *)
(* the environment's choice: an error of the HTTP call, of the timeout of  *)
(* the context and of the conversion of the result are one case.           *)
(***************************************************************************)
EXTENDS WindowShards, FiniteSets

CONSTANTS
    Keys,        \* the label sets of the series the query selects
    Windows,     \* the windows asked for
    Histories,   \* for each key, the instants at which its series exists
    maxPointsPerTimeSeries   \* --prometheus-maxpoints

ASSUME ShardQueryAssumption ==
    /\ Windows \subseteq [start : Nat, end : Nat, step : Nat \ {0}] /\ Windows # {}
    /\ Histories \subseteq [Keys -> SUBSET Nat]
    /\ maxPointsPerTimeSeries \in Nat \ {0}

VARIABLES
    history,     \* what the server stores, an element of Histories
    phase,       \* idle, direct, shards: the steps of QueryRangeSync
    window,      \* the window asked for
    running,     \* the shards whose goroutine has not called wg.Done
    resultsCh,   \* all that was sent on the buffered channel of results
    taken,       \* how much of it the merging loop has received
    resultsMap,  \* the series merged so far
    answer       \* what QueryTimeSeries returned last

vars == <<history, phase, window, running, resultsCh, taken, resultsMap, answer>>

NoSeries == [k \in {} |-> <<>>]
NoAnswer == [status |-> "pending", series |-> NoSeries]
Failed == [status |-> "error", series |-> NoSeries]
Delivered(map) == [status |-> "ok", series |-> map]

shards == ComputeWindowShards(window, maxPointsPerTimeSeries)

(* What the server answers for a window: per series that exists at one of  *)
(* its points at least, the samples in time order.                         *)
SeriesIn(w, k) ==
    Among([n \in 1..possiblePoints(w) |-> w.start + (n - 1) * w.step], history[k])
QueryRange(w) ==
    [k \in {key \in Keys : SeriesIn(w, key) # <<>>} |-> SeriesIn(w, k)]

Init ==
    /\ history \in Histories
    /\ phase = "idle"
    /\ window = CHOOSE w \in Windows : TRUE
    /\ running = {}
    /\ resultsCh = <<>>
    /\ taken = 0
    /\ resultsMap = NoSeries
    /\ answer = NoAnswer

----------------------------------------------------------------------------
(* QueryTimeSeries is called: the window is cut into shards, and either the *)
(* request is sent as it is or one goroutine per shard is started.         *)
QueryRangeSync(w) ==
    /\ phase = "idle"
    /\ window' = w
    /\ LET n == Len(ComputeWindowShards(w, maxPointsPerTimeSeries))
       IN  IF n <= 1 THEN phase' = "direct" /\ running' = {}
                     ELSE phase' = "shards" /\ running' = 1..n
    /\ resultsCh' = <<>>
    /\ taken' = 0
    /\ resultsMap' = NoSeries
    /\ answer' = NoAnswer
    /\ UNCHANGED history

(* The one request of a small window comes back. *)
DirectReturns(ok) ==
    /\ phase = "direct"
    /\ phase' = "idle"
    /\ answer' = IF ok THEN Delivered(QueryRange(window))
                       ELSE Failed
    /\ UNCHANGED <<history, window, running, resultsCh, taken, resultsMap>>

(* A QueryShardResult: what a shard sends.  What it has got so far is      *)
(* ignored when there is an error.                                         *)
ResultOf(i, ok) ==
    [shard |-> i, ok |-> ok, data |-> IF ok THEN QueryRange(shards[i]) ELSE NoSeries]

\* Mutant: a goroutine that fails returns before its wg.Done.
DoneOnlyOnSuccess(i, ok) ==
    /\ i \in running
    /\ \A j \in DOMAIN resultsCh : resultsCh[j].shard # i
    /\ running' = IF ok THEN running \ {i} ELSE running
    /\ resultsCh' = Append(resultsCh, ResultOf(i, ok))
    /\ UNCHANGED <<history, phase, window, taken, resultsMap, answer>>

(* A goroutine sends its result, or its error, and calls wg.Done. *)
ShardReturns(i, ok) ==
    /\ i \in running
    /\ Len(resultsCh) < Len(shards)   \* a send on the channel never blocks
    /\ running' = running \ {i}
    /\ resultsCh' = Append(resultsCh, ResultOf(i, ok))
    /\ UNCHANGED <<history, phase, window, taken, resultsMap, answer>>

\* Mutant: what a later result holds of a series replaces what there was.
LaterReplaces(map, r) ==
    IF ~r.ok THEN map
    ELSE [k \in DOMAIN map \cup DOMAIN r.data |->
            IF k \in DOMAIN r.data THEN r.data[k] ELSE map[k]]
(* One result is folded into the map of series: a new key is stored, a     *)
(* known one is merged with what earlier results held.                     *)
AddResult(map, r) ==
    IF ~r.ok THEN map
    ELSE [k \in DOMAIN map \cup DOMAIN r.data |->
            IF k \notin DOMAIN r.data THEN map[k]
            ELSE IF k \notin DOMAIN map THEN r.data[k]
            ELSE MergeSortedTimeSeries(map[k], r.data[k])]

(* wg.Wait has returned and the channel is closed: the loop receives the   *)
(* next result.                                                            *)
MergeNext ==
    /\ phase = "shards"
    /\ running = {}
    /\ taken < Len(resultsCh)
    /\ taken' = taken + 1
    /\ resultsMap' = AddResult(resultsMap, resultsCh[taken + 1])
    /\ UNCHANGED <<history, phase, window, running, resultsCh, answer>>

AnyError(results) == \E i \in DOMAIN results : ~results[i].ok

\* Mutant: errors count only when no series was found.
ErrorOnlyWhenEmpty ==
    IF AnyError(resultsCh) /\ resultsMap = NoSeries THEN Failed
    ELSE Delivered(resultsMap)

(* queryByShards returns the errors with the series it has, and            *)
(* QueryTimeSeries drops the series when there is an error.                *)
ShardsAnswer ==
    IF AnyError(resultsCh) THEN Failed ELSE Delivered(resultsMap)

(* The loop ends with the channel drained. *)
MergeEnds ==
    /\ phase = "shards"
    /\ running = {}
    /\ taken = Len(resultsCh)
    /\ phase' = "idle"
    /\ answer' = ShardsAnswer
    /\ UNCHANGED <<history, window, running, resultsCh, taken, resultsMap>>

(* What goes on while a query is on its way. *)
QueryProceeds ==
    \/ \E ok \in BOOLEAN : DirectReturns(ok)
    \/ \E i \in running, ok \in BOOLEAN : ShardReturns(i, ok)
    \/ MergeNext
    \/ MergeEnds

Next == QueryProceeds \/ \E w \in Windows : QueryRangeSync(w)

Spec == Init /\ [][Next]_vars

----------------------------------------------------------------------------
TypeOK ==
    /\ history \in Histories
    /\ phase \in {"idle", "direct", "shards"}
    /\ window \in Windows
    /\ running \subseteq DOMAIN shards
    /\ resultsCh \in Seq({ResultOf(i, ok) : i \in DOMAIN shards, ok \in BOOLEAN})
    /\ taken \in 0..Len(resultsCh)
    /\ DOMAIN resultsMap \subseteq Keys
    /\ answer.status \in {"pending", "ok", "error"}
    /\ DOMAIN answer.series \subseteq Keys
    /\ \A k \in DOMAIN answer.series : answer.series[k] \in Seq(Nat)

Answered == answer.status = "ok"
LastShardEnd ==
    IF Len(shards) <= 1 THEN window.end ELSE shards[Len(shards)].end

ShardWithinLimit ==
    phase # "idle" /\ Len(shards) > 1 =>
        \A i \in DOMAIN shards :
            Cardinality(Points(shards[i])) <= maxPointsPerTimeSeries
LossOnlyAtTail ==
    Answered =>
        /\ \A k \in Keys :
               \A t \in Points(window) \cap history[k] :
                   t <= LastShardEnd =>
                       k \in DOMAIN answer.series /\ t \in ToSet(answer.series[k])
        /\ Cardinality({t \in Points(window) : t > LastShardEnd})
               < IF Len(shards) <= 1 THEN 1 ELSE Len(shards)

(* No request asks for more points than the limit allows: the server would *)
(* refuse it, which is why ComputeWindowShards exists.  And what cutting   *)
(* loses, it loses at the end: up to the end of the last shard every       *)
(* sample is there, and behind it are fewer points than there are shards.  *)
ShardsFit == ShardWithinLimit /\ LossOnlyAtTail

(* Cutting into shards neither moves nor multiplies a sample: whatever the *)
(* order of the answers, each merged series is in strict time order and    *)
(* consists of samples that the direct query would return.                 *)
StrictlyUp(q) == \A i, j \in 1..Len(q) : i < j => q[i] < q[j]
MergedIsSubseries ==
    Answered => \A k \in DOMAIN answer.series :
        /\ StrictlyUp(answer.series[k])
        /\ ToSet(answer.series[k]) \subseteq Points(window) \cap history[k]

(* A failed shard is never papered over: once any goroutine of a query has *)
(* failed, the caller of that query gets an error and no series.           *)
ErrorIsReported ==
    phase = "idle" /\ AnyError(resultsCh) => answer = Failed

(* Why both hold.  A map of series holds what the server stores at some    *)
(* instants, and nothing else; what has been merged is what the shards     *)
(* whose results were received asked for, and in the end that is every     *)
(* shard: none is lost between the goroutines and the channel.             *)
HoldsAt(map, T) ==
    /\ DOMAIN map = {k \in Keys : T \cap history[k] # {}}
    /\ \A k \in DOMAIN map : /\ map[k] \in Seq(Nat) /\ StrictlyUp(map[k])
                            /\ ToSet(map[k]) = T \cap history[k]
Received ==
    UNION {Points(shards[resultsCh[n].shard]) : n \in {i \in 1..taken : resultsCh[i].ok}}
MergeKept ==
    /\ phase = "shards" =>
         /\ Len(shards) > 1
         /\ \A i \in DOMAIN shards \ running :
                \E n \in DOMAIN resultsCh : resultsCh[n].shard = i
    /\ phase = "direct" => Len(shards) <= 1
    /\ phase # "shards" => running = {}
    /\ phase # "idle" => answer = NoAnswer
    /\ HoldsAt(resultsMap, Received)
    /\ Answered => HoldsAt(answer.series, {t \in Points(window) : t <= LastShardEnd})
    /\ ~Answered => answer.series = NoSeries
MergeIInv == TypeOK /\ MergeKept

(* What ctx_test.go asserts of QueryRangeSync: the series it returns are   *)
(* those of the whole window.                                              *)
ShardedEqualsDirect == Answered => answer.series = QueryRange(window)
=============================================================================
