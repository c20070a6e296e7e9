---------------------------- MODULE CostExporter ----------------------------
(***************************************************************************)
(* The exporter as Run puts it together: the goroutine that refreshes the  *)
(* price cache and the one that sets the gauges, once WarmUp has filled    *)
(* the cache.  They share the list of nodes and the cache.  What the       *)
(* refresher does is taken from its promise, PriceFeed, which PriceCache   *)
(* implements; the emitter is Emitter as it is, its costs being computed   *)
(* from the cache.                                                         *)
(***************************************************************************)
EXTENDS Naturals, Sequences

CONSTANTS
    Instances,      \* the nodes, each with the instance behind it
    Offers, Prices, \* the configurations an instance may have and their prices
    Charged,        \* those with a charge type that the provider knows
    PricedLabels,   \* for each offer, the labels of a node that is priced by it
    DefaultLabels,  \* the labels of a node without a price in the cache
    DefaultPrice,   \* and its price
    MaxChanges      \* bound on the changes of the cluster and the cloud

ASSUME CostExporterAssumption == Charged \subseteq Offers /\ MaxChanges \in Nat

VARIABLES
    \* the cluster, the cloud and the refresher
    nodes, configOf, tariff, round, warm, listed, since, instances,
    \* the emitter
    pc, toVisit, answer, series, pending, nodesLastSeen, exported, tick, stopCh, previous,
    changes,  \* how many changes there have been
    ever      \* history: the facts about the cloud there have ever been

Feed == INSTANCE PriceFeed

DefaultCost == [labels |-> DefaultLabels, price |-> DefaultPrice]

\* Mutant: the entry of an instance gives the price, but the node the labels.
LabelsOfNode(offer, price) == [labels |-> DefaultLabels, price |-> price]

(* What an instance costs by its entry in the cache: an offer with another *)
(* charge type than the three that are known is not priced by it.          *)
CostOfEntry(offer, price) ==
    IF offer \in Charged THEN [labels |-> PricedLabels[offer], price |-> price]
                         ELSE DefaultCost

(* The cost of a node: that of its instance if the cache knows it, a       *)
(* default otherwise.  Instance type and region go with the one or the     *)
(* other.                                                                  *)
getCloudInstancePrice(n) ==
    IF n \in DOMAIN instances THEN CostOfEntry(instances[n].offer, instances[n].price)
                              ELSE DefaultCost

Labels == {PricedLabels[o] : o \in Offers} \cup {DefaultLabels}
AllPrices == Prices \cup {DefaultPrice}
Emit == INSTANCE Emitter WITH
    Nodes <- Instances,
    Prices <- AllPrices,
    CostsOf <- [n \in Instances |-> [labels : Labels, price : AllPrices]],
    costOf <- [n \in Instances |-> getCloudInstancePrice(n)]

shared == <<nodes, configOf, tariff, instances>>
refresher == <<round, warm, listed, since>>
emitter == <<pc, toVisit, answer, series, pending, nodesLastSeen, exported, tick,
             stopCh, previous>>
history == <<changes, ever>>
vars == <<shared, refresher, emitter, history>>

(* The facts that the entries of a cache stand for. *)
FactsOf(cache) ==
    [configs |-> {<<i, cache[i].offer>> : i \in DOMAIN cache},
     prices  |-> {<<cache[i].offer, cache[i].price>> : i \in DOMAIN cache}]

(* The emitter starts when the process has become the leader, which may be *)
(* long after WarmUp: the cache holds what some earlier round has found.   *)
Init ==
    /\ nodes \in SUBSET Instances
    /\ configOf \in [Instances -> Offers]
    /\ tariff \in [Offers -> Prices]
    /\ round = "none" /\ warm = TRUE
    /\ listed = {} /\ since = Feed!NoFacts
    /\ instances \in Feed!PartialFunctions(nodes, Feed!Entries)
    /\ Emit!Init
    /\ changes = 0
    /\ ever = Feed!Together(Feed!Facts, FactsOf(instances))

Refresh == Feed!Round /\ UNCHANGED <<emitter, history>>

CloudChanges ==
    /\ changes < MaxChanges
    /\ changes' = changes + 1
    /\ Feed!CloudChanges
    /\ Feed!cloud' # Feed!cloud
    /\ ever' = Feed!Together(ever, Feed!Facts')
    /\ UNCHANGED emitter

Start == UNCHANGED <<shared, refresher, history>> /\ Emit!Start
Stop == UNCHANGED <<shared, refresher, history>> /\ Emit!Stop
Tick == UNCHANGED <<shared, refresher, history>> /\ Emit!Tick
StopRequested == UNCHANGED <<shared, refresher, history>> /\ Emit!StopRequested

Next == Refresh \/ CloudChanges \/ Start \/ Tick \/ StopRequested
Spec == Init /\ [][Next]_vars

(* The rounds of the refresher go on, and while they can be complete some  *)
(* round is: that much PriceFeed promises.  The goroutine of the emitter   *)
(* is scheduled, the ticker ticks, and a select that finds two cases ready *)
(* again and again takes each of them some time.                           *)
Completes == Feed!PublishComplete /\ UNCHANGED <<emitter, history>>
FairSpec ==
    /\ Spec
    /\ WF_vars(Refresh) /\ SF_vars(Completes)
    /\ WF_vars(Start) /\ WF_vars(Tick) /\ SF_vars(Stop)

----------------------------------------------------------------------------
TypeOK ==
    /\ Emit!TypeOK
    /\ DOMAIN instances \subseteq Instances
    /\ \A i \in DOMAIN instances : instances[i] \in Feed!Entries
    /\ round \in {"none", "open"} /\ warm
    /\ listed \subseteq Instances
    /\ changes \in 0..MaxChanges

(* What Emitter says of scrapes and of the stop channel, with the costs    *)
(* coming from the cache.                                                  *)
MirrorAtRest == Emit!MirrorAtRest
TotalHasParts == Emit!TotalHasParts
NeverStale == Emit!NeverStale
NoFlicker == Emit!NoFlicker

(* No scrape sees a price under the wrong labels: what a node is exported  *)
(* with is the default price under the labels of the node, or the price    *)
(* that the cloud has had for a configuration that this very instance has  *)
(* had, under the labels of that configuration, unless its charge type is  *)
(* unknown.  Three hands pass prices and labels on: the round, the answer  *)
(* of GetNodesCost and the gauges.                                         *)
PricedByItsOffer ==
    \A g \in Emit!Gauges : \A s \in DOMAIN exported[g] :
        \/ s[2] = DefaultLabels /\ exported[g][s] = DefaultPrice
        \/ \E o \in Charged :
              /\ s[2] = PricedLabels[o]
              /\ <<s[1], o>> \in ever.configs
              /\ <<o, exported[g][s]>> \in ever.prices

(* Why it holds: each of the three hands has, at every moment, what is or  *)
(* was the cost of the node, and ever forgets nothing.                     *)
IsPriced(n, cost) ==
    \/ cost.labels = DefaultLabels /\ cost.price = DefaultPrice
    \/ \E o \in Charged : /\ cost.labels = PricedLabels[o]
                         /\ <<n, o>> \in ever.configs
                         /\ <<o, cost.price>> \in ever.prices
Known(facts) == facts.configs \subseteq ever.configs /\ facts.prices \subseteq ever.prices
NothingForgotten ==
    /\ configOf \in Feed!PartialFunctions(Instances, Offers)
    /\ tariff \in [Offers -> Prices]
    /\ Known(Feed!Facts) /\ Known(since) /\ Known(FactsOf(instances))
    /\ \A n \in DOMAIN answer : IsPriced(n, answer[n])
    /\ \A n \in DOMAIN previous : IsPriced(n, previous[n])
IInv == TypeOK /\ Emit!IInv /\ NothingForgotten

(* The gauges converge to the cloud, and the emitter obeys: when nothing   *)
(* changes any more, every scrape finally sees the present cost of the     *)
(* instance of each node and nothing else, as long as no node outlives its *)
(* instance; and when the program has been told to stop, the loop finally  *)
(* ends, even if a tick is always waiting.                                 *)
TrueCost(n) == CostOfEntry(configOf[n], tariff[configOf[n]])
Truth == [s \in {<<n, TrueCost(n).labels>> : n \in nodes} |-> TrueCost(s[1]).price]
Settled ==
    IF stopCh THEN pc = "stopped"
    ELSE nodes \subseteq DOMAIN configOf => \A g \in Emit!Gauges : exported[g] = Truth
GaugesConverge == <>[]Settled
=============================================================================
