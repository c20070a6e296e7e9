------------------------------ MODULE Emitter ------------------------------
(***************************************************************************)
(* CostMetricEmitter.Start, pkg/cost-exporter/store/prometheus, and the    *)
(* GetNodesCost that feeds it.  Once per tick the goroutine asks the cost  *)
(* model for the price of every node, sets three gauges per node, and then *)
(* removes the series it has not seen in this pass.  A scrape may fall     *)
(* between any two of these steps.                                         *)
(*                                                                         *)
(* A series is a node with the rest of its labels, which change when the   *)
(* price cache begins or ceases to know the instance of the node.  Neither *)
(* provider's GetConfig or GetNodesCost ever returns an error, so that the *)
(* two places where the loop starts over without a pause are not reached.  *)
(***************************************************************************)
EXTENDS Naturals, Sequences, Functions

CONSTANTS
    Nodes,     \* the names of the nodes
    Labels,    \* instance type, region and provider id of a node
    Prices,    \* the hourly prices of a node
    CostsOf    \* for each node, the labels and prices it may have

VARIABLES
    nodes,          \* the nodes the informer lists
    costOf,         \* what the provider computes for each node by now
    pc,             \* where the loop is
    toVisit,        \* what the loop at hand has yet to visit
    answer,         \* the answer of GetNodesCost
    series,         \* the series that is being set or deleted
    pending,        \* the gauges for which that is still to be done
    nodesLastSeen,  \* for each series known: seen in this pass?
    exported,       \* for each gauge, the value of each of its series
    tick,           \* is a tick waiting in the ticker's channel?
    stopCh,         \* closed?
    previous        \* history: the answer before this one

world == <<nodes, costOf>>
vars == <<nodes, costOf, pc, toVisit, answer, series, pending, nodesLastSeen,
          exported, tick, stopCh, previous>>

Gauges == {"cpu", "ram", "total"}
Series == Nodes \X Labels
Costs == [labels : Labels, price : Prices]
Worlds == {f \in [Nodes -> Costs] : \A n \in Nodes : f[n] \in CostsOf[n]}

Nothing == [x \in {} |-> {}]
NoSeries == <<>>
With(f, x, v) == [y \in DOMAIN f \cup {x} |-> IF y = x THEN v ELSE f[y]]
Without(f, x) == [y \in DOMAIN f \ {x} |-> f[y]]

Init ==
    /\ nodes \in SUBSET Nodes
    /\ costOf \in Worlds
    /\ pc = "collect"
    /\ toVisit = nodes
    /\ answer = Nothing
    /\ series = NoSeries
    /\ pending = <<>>
    /\ nodesLastSeen = Nothing
    /\ exported = [g \in Gauges |-> Nothing]
    /\ tick = FALSE
    /\ stopCh = FALSE
    /\ previous = Nothing

----------------------------------------------------------------------------
(* GetNodesCost computes the cost of one more of the nodes it found.  The  *)
(* lock of the price cache is taken anew for each of them.                 *)
GetNodesCost(n) ==
    /\ pc = "collect"
    /\ n \in toVisit
    /\ toVisit' = toVisit \ {n}
    /\ answer' = With(answer, n, costOf[n])
    /\ UNCHANGED <<world, pc, series, pending, nodesLastSeen, exported, tick,
                   stopCh, previous>>

Collected ==
    /\ pc = "collect"
    /\ toVisit = {}
    /\ pc' = "set"
    /\ toVisit' = DOMAIN answer
    /\ UNCHANGED <<world, answer, series, pending, nodesLastSeen, exported, tick,
                   stopCh, previous>>

(* The loop over the answer takes a node ... *)
NextNode(n) ==
    /\ pc = "set"
    /\ pending = <<>>
    /\ n \in toVisit
    /\ toVisit' = toVisit \ {n}
    /\ series' = <<n, answer[n].labels>>
    /\ pending' = <<"cpu", "ram", "total">>
    /\ UNCHANGED <<world, pc, answer, nodesLastSeen, exported, tick, stopCh, previous>>

\* Mutants: the key leaves the labels out; only a series that is new is marked.
KeyIsNodeName(seen, s) == With(seen, s[1], TRUE)
MarkIfNew(seen, s) == IF s \in DOMAIN seen THEN seen ELSE With(seen, s, TRUE)
MarkSeen(seen, s) == With(seen, s, TRUE)

\* Mutant: the price is looked up again.
PresentPrice(n) == costOf[n].price
AnsweredPrice(n) == answer[n].price

(* ... sets its gauges one by one, and marks the series as seen. *)
SetGauge ==
    /\ pc = "set"
    /\ pending # <<>>
    /\ pending' = Tail(pending)
    /\ exported' = [exported EXCEPT ![Head(pending)] =
                       With(@, series, AnsweredPrice(series[1]))]
    /\ IF Tail(pending) = <<>>
       THEN /\ nodesLastSeen' = MarkSeen(nodesLastSeen, series)
            /\ series' = NoSeries
       ELSE UNCHANGED <<nodesLastSeen, series>>
    /\ UNCHANGED <<world, pc, toVisit, answer, tick, stopCh, previous>>

AllSet ==
    /\ pc = "set"
    /\ pending = <<>>
    /\ toVisit = {}
    /\ pc' = "sweep"
    /\ toVisit' = DOMAIN nodesLastSeen
    /\ UNCHANGED <<world, answer, series, pending, nodesLastSeen, exported, tick,
                   stopCh, previous>>

\* Mutants: the flag stays set; the total goes last; a gauge is forgotten.
NoReset(seen, s) == seen
TotalGoesLast == <<"cpu", "ram", "total">>
OnlyTotalAndCpu == <<"total", "cpu">>
Reset(seen, s) == [seen EXCEPT ![s] = FALSE]
DeletionOrder == <<"total", "cpu", "ram">>

(* The loop over nodesLastSeen: a series that was seen is unmarked, for    *)
(* the next pass; one that was not is about to be deleted.                 *)
Sweep(s) ==
    /\ pc = "sweep"
    /\ pending = <<>>
    /\ s \in toVisit
    /\ toVisit' = toVisit \ {s}
    /\ IF nodesLastSeen[s]
       THEN /\ nodesLastSeen' = Reset(nodesLastSeen, s)
            /\ UNCHANGED <<series, pending>>
       ELSE /\ series' = s
            /\ pending' = DeletionOrder
            /\ UNCHANGED nodesLastSeen
    /\ UNCHANGED <<world, pc, answer, exported, tick, stopCh, previous>>

DeleteLabelValues ==
    /\ pc = "sweep"
    /\ pending # <<>>
    /\ pending' = Tail(pending)
    /\ exported' = [exported EXCEPT ![Head(pending)] = Without(@, series)]
    /\ IF Tail(pending) = <<>>
       THEN /\ nodesLastSeen' = Without(nodesLastSeen, series)
            /\ series' = NoSeries
       ELSE UNCHANGED <<nodesLastSeen, series>>
    /\ UNCHANGED <<world, pc, toVisit, answer, tick, stopCh, previous>>

Swept ==
    /\ pc = "sweep"
    /\ pending = <<>>
    /\ toVisit = {}
    /\ pc' = "select"
    /\ UNCHANGED <<world, toVisit, answer, series, pending, nodesLastSeen, exported,
                   tick, stopCh, previous>>

\* Mutant: a waiting tick goes first.
TickGoesFirst ==
    /\ pc = "select"
    /\ stopCh /\ ~tick
    /\ pc' = "stopped"
    /\ UNCHANGED <<world, toVisit, answer, series, pending, nodesLastSeen, exported,
                   tick, stopCh, previous>>

(* The select at the end of the loop: both cases may be ready. *)
Stop ==
    /\ pc = "select"
    /\ stopCh
    /\ pc' = "stopped"
    /\ UNCHANGED <<world, toVisit, answer, series, pending, nodesLastSeen, exported,
                   tick, stopCh, previous>>

NextPass ==
    /\ pc = "select"
    /\ tick
    /\ tick' = FALSE
    /\ pc' = "collect"
    /\ toVisit' = nodes
    /\ answer' = Nothing
    /\ previous' = answer
    /\ UNCHANGED <<world, series, pending, nodesLastSeen, exported, stopCh>>

Start ==
    \/ \E n \in Nodes : GetNodesCost(n) \/ NextNode(n)
    \/ Collected \/ SetGauge \/ AllSet
    \/ \E s \in Series : Sweep(s)
    \/ DeleteLabelValues \/ Swept \/ Stop \/ NextPass

----------------------------------------------------------------------------
(* The ticker drops a tick when one is waiting already. *)
Tick ==
    /\ ~tick
    /\ pc # "stopped"
    /\ tick' = TRUE
    /\ UNCHANGED <<world, pc, toVisit, answer, series, pending, nodesLastSeen,
                   exported, stopCh, previous>>

(* The context of the program is cancelled. *)
StopRequested ==
    /\ ~stopCh
    /\ stopCh' = TRUE
    /\ UNCHANGED <<world, pc, toVisit, answer, series, pending, nodesLastSeen,
                   exported, tick, previous>>

(* Nodes and their prices change under the emitter's feet. *)
WorldChanges ==
    /\ nodes' \in SUBSET Nodes
    /\ costOf' \in Worlds
    /\ world' # world
    /\ UNCHANGED <<pc, toVisit, answer, series, pending, nodesLastSeen, exported,
                   tick, stopCh, previous>>

Next == Start \/ Tick \/ StopRequested \/ WorldChanges
Spec == Init /\ [][Next]_vars

----------------------------------------------------------------------------
Partial(f, D, R) == DOMAIN f \subseteq D /\ \A x \in DOMAIN f : f[x] \in R

TypeOK ==
    /\ nodes \subseteq Nodes
    /\ costOf \in Worlds
    /\ pc \in {"collect", "set", "sweep", "select", "stopped"}
    /\ toVisit \subseteq IF pc = "sweep" THEN DOMAIN nodesLastSeen ELSE Nodes
    /\ Partial(answer, Nodes, Costs)
    /\ Partial(previous, Nodes, Costs)
    /\ series \in Series \cup {NoSeries}
    /\ pending \in Seq(Gauges)
    /\ Partial(nodesLastSeen, Series, BOOLEAN)
    /\ DOMAIN exported = Gauges
    /\ \A g \in Gauges : Partial(exported[g], Series, Prices)
    /\ tick \in BOOLEAN /\ stopCh \in BOOLEAN

SeriesOf(a) == {<<n, a[n].labels>> : n \in DOMAIN a}
Shows(a) == [s \in SeriesOf(a) |-> a[s[1]].price]

(* Between two passes a scrape sees the last answer of the cost model,     *)
(* whole and nothing but it, in each of the three gauges.                  *)
MirrorAtRest ==
    pc \in {"select", "stopped"} => \A g \in Gauges : exported[g] = Shows(answer)

(* At any moment, in the middle of a pass too, a scrape sees no value that *)
(* is older than the pass before: whatever is exported is what the last or *)
(* the last but one answer says of that very series.                       *)
NeverStale ==
    \A g \in Gauges : \A s \in DOMAIN exported[g] :
        \/ s \in SeriesOf(answer) /\ exported[g][s] = Shows(answer)[s]
        \/ s \in SeriesOf(previous) /\ exported[g][s] = Shows(previous)[s]

(* A node that stays with its labels never drops out of a scrape: no pass  *)
(* deletes a series that belongs to the answer the pass is about.          *)
DeletesOnlyGone ==
    \A g \in Gauges : \A s \in DOMAIN exported[g] \ DOMAIN exported'[g] :
        s \notin SeriesOf(answer)
NoFlicker == [][DeletesOnlyGone]_vars

(* A total is never exported for a series without its parts.               *)
TotalHasParts ==
    DOMAIN exported["total"] \subseteq DOMAIN exported["cpu"] \cap DOMAIN exported["ram"]

(* Why they hold: where the pass is determines what is exported.  Each     *)
(* gauge, and nodesLastSeen too, is at every moment the answer before with *)
(* some of its series renewed, or the present answer with some of those    *)
(* before still kept.  The series at hand is open for a gauge until its    *)
(* own call is made, and for nodesLastSeen until the last one is.          *)
OpenFor(g) == {s \in {series} : g \in Range(pending)}
Open == {s \in {series} : pending # <<>>}
Renewed(open) ==
    CASE pc = "collect" -> {}
      [] pc = "set" -> {s \in SeriesOf(answer) : s[1] \notin toVisit} \ open
      [] OTHER -> SeriesOf(answer)
Kept(open) ==
    CASE pc \in {"collect", "set"} -> SeriesOf(previous)
      [] pc = "sweep" -> toVisit \cup open
      [] OTHER -> {}

AtHand ==
    \/ pending = <<>> /\ series = NoSeries
    \/ /\ pc = "set"
       /\ pending \in {<<"cpu", "ram", "total">>, <<"ram", "total">>, <<"total">>}
       /\ series \in SeriesOf(answer) /\ series[1] \notin toVisit
    \/ /\ pc = "sweep"
       /\ pending \in {<<"total", "cpu", "ram">>, <<"cpu", "ram">>, <<"ram">>}
       /\ series \in SeriesOf(previous) \ (SeriesOf(answer) \cup toVisit)

ToVisitIsLeft ==
    /\ pc = "set" => toVisit \subseteq DOMAIN answer
    /\ pc = "sweep" => toVisit \subseteq SeriesOf(answer) \cup SeriesOf(previous)

Content(open) ==
    [s \in Renewed(open) \cup Kept(open) |->
        IF s \in Renewed(open) THEN answer[s[1]].price ELSE previous[s[1]].price]
GaugesShow == \A g \in Gauges : exported[g] = Content(OpenFor(g))

SeenIsKnown ==
    /\ nodesLastSeen \in [Renewed(Open) \cup Kept(Open) -> BOOLEAN]
    /\ \A s \in DOMAIN nodesLastSeen : nodesLastSeen[s] <=>
          \/ pc = "set" /\ s \in Renewed(Open)
          \/ pc = "sweep" /\ s \in SeriesOf(answer) /\ s \in toVisit

IInv == TypeOK /\ AtHand /\ ToVisitIsLeft /\ GaugesShow /\ SeenIsKnown
=============================================================================
