------------------------- MODULE CostExporterProofs -------------------------
(***************************************************************************)
(* Proofs about the exporter as a whole, for every set of instances,       *)
(* offers, prices and labels and any number of changes: the emitter that   *)
(* reads the cache is the emitter of EmitterProofs, so that what is proved *)
(* there holds here; and no price is exported under another's labels.      *)
(***************************************************************************)
EXTENDS CostExporter, TLAPS

EmitProofs == INSTANCE EmitterProofs WITH
    Nodes <- Instances,
    Prices <- AllPrices,
    CostsOf <- [n \in Instances |-> [labels : Labels, price : AllPrices]],
    costOf <- [n \in Instances |-> getCloudInstancePrice(n)]

(* The two instances of Emitter, that of the exporter and that of the      *)
(* proofs, are the same.                                                   *)
LEMMA SameInit == Emit!Init <=> EmitProofs!Init
BY DEF Emit!Init, EmitProofs!Init, Emit!Worlds, EmitProofs!Worlds, Emit!Costs,
   EmitProofs!Costs, Emit!Gauges, EmitProofs!Gauges, Emit!Nothing,
   EmitProofs!Nothing, Emit!NoSeries, EmitProofs!NoSeries

LEMMA SameSteps ==
  /\ Emit!Start <=> EmitProofs!Start
  /\ Emit!Tick <=> EmitProofs!Tick
  /\ Emit!StopRequested <=> EmitProofs!StopRequested
BY DEF Emit!Start, EmitProofs!Start, Emit!Tick, EmitProofs!Tick,
   Emit!StopRequested, EmitProofs!StopRequested, Emit!GetNodesCost,
   EmitProofs!GetNodesCost, Emit!Collected, EmitProofs!Collected,
   Emit!NextNode, EmitProofs!NextNode, Emit!SetGauge, EmitProofs!SetGauge,
   Emit!AllSet, EmitProofs!AllSet, Emit!Sweep, EmitProofs!Sweep,
   Emit!DeleteLabelValues, EmitProofs!DeleteLabelValues, Emit!Swept,
   EmitProofs!Swept, Emit!Stop, EmitProofs!Stop, Emit!NextPass,
   EmitProofs!NextPass, Emit!Series, EmitProofs!Series, Emit!world,
   EmitProofs!world, Emit!With, EmitProofs!With, Emit!Without,
   EmitProofs!Without, Emit!NoSeries, EmitProofs!NoSeries, Emit!Nothing,
   EmitProofs!Nothing, Emit!AnsweredPrice, EmitProofs!AnsweredPrice,
   Emit!MarkSeen, EmitProofs!MarkSeen, Emit!Reset, EmitProofs!Reset,
   Emit!DeletionOrder, EmitProofs!DeletionOrder

LEMMA SameProperties ==
  /\ Emit!TypeOK <=> EmitProofs!TypeOK
  /\ Emit!MirrorAtRest <=> EmitProofs!MirrorAtRest
  /\ Emit!NeverStale <=> EmitProofs!NeverStale
  /\ Emit!TotalHasParts <=> EmitProofs!TotalHasParts
  /\ Emit!DeletesOnlyGone <=> EmitProofs!DeletesOnlyGone
BY DEF Emit!TypeOK, EmitProofs!TypeOK, Emit!MirrorAtRest,
   EmitProofs!MirrorAtRest, Emit!NeverStale, EmitProofs!NeverStale,
   Emit!TotalHasParts, EmitProofs!TotalHasParts, Emit!DeletesOnlyGone,
   EmitProofs!DeletesOnlyGone, Emit!SeriesOf, EmitProofs!SeriesOf,
   Emit!Shows, EmitProofs!Shows, Emit!Gauges, EmitProofs!Gauges,
   Emit!Partial, EmitProofs!Partial, Emit!Series, EmitProofs!Series,
   Emit!Costs, EmitProofs!Costs, Emit!Worlds, EmitProofs!Worlds,
   Emit!NoSeries, EmitProofs!NoSeries

LEMMA SameInvariant == Emit!IInv <=> EmitProofs!IInv
BY SameProperties DEF Emit!IInv, EmitProofs!IInv, Emit!AtHand, EmitProofs!AtHand,
   Emit!ToVisitIsLeft, EmitProofs!ToVisitIsLeft, Emit!GaugesShow,
   EmitProofs!GaugesShow, Emit!SeenIsKnown, EmitProofs!SeenIsKnown,
   Emit!OpenFor, EmitProofs!OpenFor, Emit!Open, EmitProofs!Open,
   Emit!Renewed, EmitProofs!Renewed, Emit!Kept, EmitProofs!Kept,
   Emit!Content, EmitProofs!Content, Emit!SeriesOf, EmitProofs!SeriesOf,
   Emit!Gauges, EmitProofs!Gauges, Emit!NoSeries, EmitProofs!NoSeries,
   Emit!Range, EmitProofs!Range
----------------------------------------------------------------------------
(* The types of what the refresher, the cluster and the cloud own. *)
CloudTypes ==
    /\ nodes \subseteq Instances
    /\ configOf \in Feed!PartialFunctions(Instances, Offers)
    /\ tariff \in [Offers -> Prices]
    /\ DOMAIN instances \subseteq Instances
    /\ \A i \in DOMAIN instances : instances[i] \in Feed!Entries
    /\ round \in {"none", "open"} /\ warm \in BOOLEAN /\ warm
    /\ listed \subseteq Instances
    /\ changes \in 0..MaxChanges

LEMMA PartialFunctionIs ==
  ASSUME NEW D, NEW R, NEW f \in Feed!PartialFunctions(D, R)
  PROVE  DOMAIN f \subseteq D /\ \A x \in DOMAIN f : f[x] \in R
BY DEF Feed!PartialFunctions

LEMMA PartialOfPartial ==
  ASSUME NEW D, NEW R, NEW f \in Feed!PartialFunctions(D, R),
         NEW g \in Feed!PartialFunctions(DOMAIN f, R)
  PROVE  g \in Feed!PartialFunctions(D, R)
BY DEF Feed!PartialFunctions

LEMMA CloudTypesInit == Init => CloudTypes
<1> SUFFICES ASSUME Init PROVE CloudTypes
  OBVIOUS
<1>1. configOf \in Feed!PartialFunctions(Instances, Offers)
  BY DEF Init, Feed!PartialFunctions
<1>2. DOMAIN instances \subseteq Instances /\ \A i \in DOMAIN instances : instances[i] \in Feed!Entries
  BY PartialFunctionIs DEF Init
<1>3. changes \in 0..MaxChanges
  BY CostExporterAssumption DEF Init
<1>4. QED
  BY <1>1, <1>2, <1>3 DEF Init, CloudTypes

LEMMA CloudTypesNext == CloudTypes /\ [Next]_vars => CloudTypes'
<1> SUFFICES ASSUME CloudTypes, [Next]_vars PROVE CloudTypes'
  OBVIOUS
<1> USE DEF CloudTypes
<1>1. CASE Refresh
  <2> USE <1>1 DEF Refresh, history, Feed!RoundIsOver, Feed!cloud
  <2>1. CASE Feed!BeginRound
    BY <2>1 DEF Feed!BeginRound
  <2>2. CASE Feed!Abandon
    BY <2>2 DEF Feed!Abandon
  <2>3. CASE Feed!Publish
    <3>1. DOMAIN instances' \subseteq listed /\ \A i \in DOMAIN instances' : instances'[i] \in Feed!Entries
      BY <2>3, PartialFunctionIs DEF Feed!Publish
    <3>2. QED
      BY <2>3, <3>1 DEF Feed!Publish
  <2>4. QED
    BY <2>1, <2>2, <2>3 DEF Feed!Round
<1>2. CASE CloudChanges
  <2>1. nodes' \subseteq Instances /\ tariff' \in [Offers -> Prices]
    BY <1>2 DEF CloudChanges, Feed!CloudChanges, Feed!NodesChange, Feed!InstancesChange, Feed!TariffChanges
  <2>2. configOf' \in Feed!PartialFunctions(Instances, Offers)
    BY <1>2, PartialOfPartial DEF CloudChanges, Feed!CloudChanges, Feed!NodesChange, Feed!InstancesChange, Feed!TariffChanges
  <2>3. changes' \in 0..MaxChanges
    BY <1>2, CostExporterAssumption DEF CloudChanges
  <2>4. QED
    BY <1>2, <2>1, <2>2, <2>3 DEF CloudChanges, Feed!CloudChanges
<1>3. CASE Start \/ Tick \/ StopRequested \/ UNCHANGED vars
  BY <1>3 DEF Start, Tick, StopRequested, vars, shared, refresher, history
<1>4. QED
  BY <1>1, <1>2, <1>3 DEF Next

LEMMA CloudTypesHold == Spec => []CloudTypes
<1>1. CloudTypes /\ [Next]_vars => CloudTypes'
  BY CloudTypesNext
<1>2. QED
  BY CloudTypesInit, <1>1, PTL DEF Spec

(* Whatever the cache holds, the cost of a node is one the emitter expects.*)
LEMMA CostsAreCosts ==
  ASSUME NEW cache, \A i \in DOMAIN cache : cache[i] \in Feed!Entries
  PROVE  [n \in Instances |->
            IF n \in DOMAIN cache THEN CostOfEntry(cache[n].offer, cache[n].price)
                              ELSE DefaultCost] \in EmitProofs!Worlds
<1>1. DefaultCost \in [labels : Labels, price : AllPrices]
  BY DEF DefaultCost, Labels, AllPrices
<1>2. \A o \in Offers, p \in Prices : CostOfEntry(o, p) \in [labels : Labels, price : AllPrices]
  BY <1>1 DEF CostOfEntry, Labels, AllPrices
<1>3. \A n \in DOMAIN cache : cache[n].offer \in Offers /\ cache[n].price \in Prices
  BY DEF Feed!Entries
<1>4. QED
  BY <1>1, <1>2, <1>3 DEF EmitProofs!Worlds, EmitProofs!Costs

(* A change of the cache or of the cluster is for the emitter a change of  *)
(* the world, or none.                                                     *)
LEMMA EmitterStep ==
  ASSUME CloudTypes, CloudTypes', [Next]_vars
  PROVE  [EmitProofs!Next]_EmitProofs!vars
<1>1. CASE Start \/ Tick \/ StopRequested
  BY <1>1, SameSteps DEF Start, Tick, StopRequested, EmitProofs!Next
<1>2. CASE Refresh \/ CloudChanges
  <2>1. UNCHANGED emitter
    BY <1>2 DEF Refresh, CloudChanges
  <2>2. nodes' \in SUBSET Instances
    BY DEF CloudTypes
  <2>3. [n \in Instances |-> getCloudInstancePrice(n)]' \in EmitProofs!Worlds
    BY CostsAreCosts DEF CloudTypes, getCloudInstancePrice
  <2>4. EmitProofs!WorldChanges \/ UNCHANGED EmitProofs!vars
    BY <2>1, <2>2, <2>3 DEF emitter, EmitProofs!WorldChanges, EmitProofs!vars, EmitProofs!world
  <2>5. QED
    BY <2>4 DEF EmitProofs!Next
<1>3. CASE UNCHANGED vars
  BY <1>3 DEF vars, shared, emitter, EmitProofs!vars, getCloudInstancePrice
<1>4. QED
  BY <1>1, <1>2, <1>3 DEF Next

(* The emitter of the exporter is Emitter, with costs from the cache. *)
LEMMA EmitterImplemented == Spec => EmitProofs!Spec
<1>1. Init => EmitProofs!Init
  BY SameInit DEF Init
<1>2. CloudTypes /\ CloudTypes' /\ [Next]_vars => [EmitProofs!Next]_EmitProofs!vars
  BY EmitterStep
<1>3. QED
  BY <1>1, <1>2, CloudTypesHold, PTL DEF Spec, EmitProofs!Spec

(* Between two passes every gauge is the last answer, computed from the    *)
(* cache, whole and nothing but it.                                        *)
THEOREM ExporterMirrorsAtRest == Spec => []MirrorAtRest
<1>1. EmitProofs!MirrorAtRest => MirrorAtRest
  BY SameProperties DEF MirrorAtRest
<1>2. QED
  BY EmitterImplemented, EmitProofs!MirrorsAtRest, <1>1, PTL

(* No scrape sees what neither the last answer nor the one before says of  *)
(* the series, however the cache is refreshed meanwhile.                   *)
THEOREM ExporterNothingStale == Spec => []NeverStale
<1>1. EmitProofs!NeverStale => NeverStale
  BY SameProperties DEF NeverStale
<1>2. QED
  BY EmitterImplemented, EmitProofs!NothingStale, <1>1, PTL

(* No scrape sees a total without its parts. *)
THEOREM ExporterTotalsHaveParts == Spec => []TotalHasParts
<1>1. EmitProofs!TotalHasParts => TotalHasParts
  BY SameProperties DEF TotalHasParts
<1>2. QED
  BY EmitterImplemented, EmitProofs!TotalsHaveParts, <1>1, PTL

(* No pass deletes a series that its answer names. *)
THEOREM ExporterNothingFlickers == Spec => NoFlicker
<1>1. [EmitProofs!DeletesOnlyGone]_EmitProofs!vars <=> [Emit!DeletesOnlyGone]_Emit!vars
  BY SameProperties DEF EmitProofs!vars, Emit!vars
<1>2. QED
  BY EmitterImplemented, EmitProofs!NothingFlickers, <1>1, PTL
     DEF NoFlicker, Emit!NoFlicker, EmitProofs!NoFlicker

----------------------------------------------------------------------------
(* What a step of the emitter does to the answers in its hands: it takes   *)
(* the cost of a node from the cache, puts an answer away, or neither.     *)
LEMMA AnswersChange ==
  ASSUME EmitProofs!Start
  PROVE  \/ UNCHANGED <<answer, previous>>
         \/ answer' = EmitProofs!Nothing /\ previous' = answer
         \/ \E n \in Instances : /\ answer' = EmitProofs!With(answer, n, getCloudInstancePrice(n))
                                 /\ UNCHANGED previous
<1>1. ASSUME NEW n \in Instances, EmitProofs!GetNodesCost(n)
      PROVE  /\ answer' = EmitProofs!With(answer, n, getCloudInstancePrice(n))
             /\ UNCHANGED previous
  BY <1>1 DEF EmitProofs!GetNodesCost
<1>2. CASE EmitProofs!NextPass
  BY <1>2 DEF EmitProofs!NextPass
<1>3. QED
  BY <1>1, <1>2 DEF EmitProofs!Start, EmitProofs!Collected, EmitProofs!NextNode,
     EmitProofs!SetGauge, EmitProofs!AllSet, EmitProofs!Sweep,
     EmitProofs!DeleteLabelValues, EmitProofs!Swept, EmitProofs!Stop

(* What the cache has for an instance is a cost the instance has had. *)
LEMMA CacheIsPriced ==
  ASSUME CloudTypes, Known(FactsOf(instances)), NEW n \in Instances
  PROVE  IsPriced(n, getCloudInstancePrice(n))
<1>1. CASE n \in DOMAIN instances
  <2>1. /\ <<n, instances[n].offer>> \in ever.configs
        /\ <<instances[n].offer, instances[n].price>> \in ever.prices
        /\ instances[n].offer \in Offers
    BY <1>1 DEF CloudTypes, Known, FactsOf, Feed!Entries
  <2>2. QED
    BY <1>1, <2>1 DEF IsPriced, getCloudInstancePrice, CostOfEntry, DefaultCost
<1>2. CASE n \notin DOMAIN instances
  BY <1>2 DEF IsPriced, getCloudInstancePrice, CostOfEntry, DefaultCost
<1>3. QED
  BY <1>1, <1>2

LEMMA NothingForgottenInit == Init => NothingForgotten
<1> SUFFICES ASSUME Init PROVE NothingForgotten
  OBVIOUS
<1>1. CloudTypes
  BY CloudTypesInit
<1>2. Known(Feed!Facts) /\ Known(FactsOf(instances)) /\ Known(since)
  BY DEF Init, Known, Feed!Together, Feed!NoFacts
<1>3. answer = Emit!Nothing /\ previous = Emit!Nothing
  BY DEF Init, Emit!Init
<1>4. DOMAIN Emit!Nothing = {}
  BY DEF Emit!Nothing
<1>5. QED
  BY <1>1, <1>2, <1>3, <1>4 DEF NothingForgotten, CloudTypes

LEMMA NothingForgottenNext ==
  ASSUME CloudTypes, CloudTypes', NothingForgotten, [Next]_vars
  PROVE  NothingForgotten'
<1> USE DEF NothingForgotten, CloudTypes
<1>1. CASE Refresh
  <2> USE <1>1 DEF Refresh, emitter, history, Feed!RoundIsOver, Feed!cloud
  <2>1. /\ UNCHANGED <<ever, answer, previous, configOf, tariff>>
        /\ \A n \in DOMAIN answer' : IsPriced(n, answer[n])'
        /\ \A n \in DOMAIN previous' : IsPriced(n, previous[n])'
    BY DEF Feed!Round, Feed!BeginRound, Feed!Abandon, Feed!Publish, IsPriced
  <2>2. Known(Feed!Facts)'
    BY <2>1 DEF Known, Feed!Facts
  <2>3. Known(since)'
    BY <2>1 DEF Known, Feed!Round, Feed!BeginRound, Feed!Abandon, Feed!Publish, Feed!NoFacts
  <2>4. Known(FactsOf(instances))'
    <3>1. CASE UNCHANGED instances
      BY <2>1, <3>1 DEF Known, FactsOf
    <3>2. CASE Feed!Publish
      <4>1. ASSUME NEW i \in DOMAIN instances'
            PROVE  /\ <<i, instances'[i].offer>> \in ever.configs
                   /\ <<instances'[i].offer, instances'[i].price>> \in ever.prices
        BY <3>2, <4>1 DEF Feed!Publish, Feed!IsUpdate, Feed!IsRecent, Known, FactsOf
      <4>2. QED
        BY <2>1, <4>1 DEF Known, FactsOf
    <3>3. QED
      BY <3>1, <3>2 DEF Feed!Round, Feed!BeginRound, Feed!Abandon
  <2>5. QED
    BY <2>1, <2>2, <2>3, <2>4
<1>2. CASE CloudChanges
  <2> USE <1>2 DEF CloudChanges, Feed!CloudChanges, emitter
  <2>1. /\ ever'.configs = ever.configs \cup Feed!Facts'.configs
        /\ ever'.prices = ever.prices \cup Feed!Facts'.prices
    BY DEF Feed!Together
  <2>2. Known(Feed!Facts)'
    BY <2>1 DEF Known
  <2>3. Known(since)'
    BY <2>1 DEF Known, Feed!Together
  <2>4. Known(FactsOf(instances))'
    BY <2>1 DEF Known, FactsOf
  <2>5. /\ \A n \in DOMAIN answer' : IsPriced(n, answer[n])'
        /\ \A n \in DOMAIN previous' : IsPriced(n, previous[n])'
    BY <2>1 DEF IsPriced
  <2>6. QED
    BY <2>2, <2>3, <2>4, <2>5
<1>3. CASE Start
  <2> USE <1>3 DEF Start, shared, refresher, history
  <2>1. Known(Feed!Facts)' /\ Known(since)' /\ Known(FactsOf(instances))'
    BY DEF Known, Feed!Facts, FactsOf
  <2>2. \A n, cost : IsPriced(n, cost) => IsPriced(n, cost)'
    BY DEF IsPriced
  <2>3. /\ \A n \in DOMAIN answer' : IsPriced(n, answer'[n])
        /\ \A n \in DOMAIN previous' : IsPriced(n, previous'[n])
    <3>1. CASE UNCHANGED <<answer, previous>>
      BY <3>1
    <3>2. CASE answer' = EmitProofs!Nothing /\ previous' = answer
      BY <3>2 DEF EmitProofs!Nothing
    <3>3. CASE \E n \in Instances : /\ answer' = EmitProofs!With(answer, n, getCloudInstancePrice(n))
                                    /\ UNCHANGED previous
      BY <3>3, CacheIsPriced DEF EmitProofs!With
    <3>4. QED
      BY <3>1, <3>2, <3>3, SameSteps, AnswersChange
  <2>4. QED
    BY <2>1, <2>2, <2>3
<1>4. CASE Tick \/ StopRequested \/ UNCHANGED vars
  <2>1. UNCHANGED <<configOf, tariff, ever, since, instances, answer, previous>>
    BY <1>4 DEF Tick, StopRequested, Emit!Tick, Emit!StopRequested, vars, shared, refresher,
                emitter, history
  <2>2. Known(Feed!Facts)' /\ Known(since)' /\ Known(FactsOf(instances))'
    BY <2>1 DEF Known, Feed!Facts, FactsOf
  <2>3. /\ \A n \in DOMAIN answer' : IsPriced(n, answer[n])'
        /\ \A n \in DOMAIN previous' : IsPriced(n, previous[n])'
    BY <2>1 DEF IsPriced
  <2>4. QED
    BY <2>1, <2>2, <2>3
<1>5. QED
  BY <1>1, <1>2, <1>3, <1>4 DEF Next

(* Each hand that passes prices and labels on has, at every moment, what   *)
(* the cloud has had, and the pass determines what is exported.            *)
THEOREM HandsHoldFacts == Spec => []IInv
<1>1. CloudTypes /\ CloudTypes' /\ NothingForgotten /\ [Next]_vars => NothingForgotten'
  BY NothingForgottenNext
<1>2. EmitProofs!IInv /\ CloudTypes /\ NothingForgotten => IInv
  BY SameInvariant, SameProperties DEF IInv, TypeOK, CloudTypes, Emit!IInv
<1>3. QED
  BY NothingForgottenInit, <1>1, <1>2, CloudTypesHold, EmitterImplemented,
     EmitProofs!PassDeterminesGauges, PTL DEF Spec

(* No scrape sees a price under the wrong labels, however the cache is     *)
(* refreshed and instances and tariff change between the reads of the      *)
(* answer and the calls on the gauges.                                     *)
THEOREM PricesUnderTheirLabels == Spec => []PricedByItsOffer
<1>1. IInv /\ NeverStale => PricedByItsOffer
  <2> SUFFICES ASSUME IInv, NeverStale,
                      NEW g \in Emit!Gauges, NEW s \in DOMAIN exported[g]
               PROVE  IsPriced(s[1], [labels |-> s[2], price |-> exported[g][s]])
    BY DEF PricedByItsOffer, IsPriced
  <2>1. \/ s \in Emit!SeriesOf(answer) /\ exported[g][s] = Emit!Shows(answer)[s]
        \/ s \in Emit!SeriesOf(previous) /\ exported[g][s] = Emit!Shows(previous)[s]
    BY DEF NeverStale, Emit!NeverStale
  <2>2. ASSUME NEW a, \A n \in DOMAIN a : IsPriced(n, a[n]),
               s \in Emit!SeriesOf(a), exported[g][s] = Emit!Shows(a)[s]
        PROVE  IsPriced(s[1], [labels |-> s[2], price |-> exported[g][s]])
    <3>1. /\ s[1] \in DOMAIN a /\ s[2] = a[s[1]].labels
          /\ exported[g][s] = a[s[1]].price
      BY <2>2 DEF Emit!SeriesOf, Emit!Shows
    <3>2. QED
      BY <2>2, <3>1 DEF IsPriced
  <2>3. QED
    BY <2>1, <2>2 DEF IInv, NothingForgotten
<1>2. QED
  BY HandsHoldFacts, ExporterNothingStale, <1>1, PTL
=============================================================================
