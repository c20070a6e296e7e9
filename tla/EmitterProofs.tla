--------------------------- MODULE EmitterProofs ---------------------------
(***************************************************************************)
(* Proofs about the emitter, for any nodes, labels and prices, any order   *)
(* in which the loops visit what they range over, and a world that may     *)
(* change between any two steps.                                           *)
(***************************************************************************)
EXTENDS Emitter, TLAPS

(* The series of an answer and its nodes determine each other. *)
LEMMA SeriesOfAnswer ==
  ASSUME NEW a
  PROVE  /\ \A n \in DOMAIN a : <<n, a[n].labels>> \in SeriesOf(a)
         /\ \A s \in SeriesOf(a) : s[1] \in DOMAIN a /\ s = <<s[1], a[s[1]].labels>>
BY DEF SeriesOf

LEMMA SeriesOfType ==
  ASSUME NEW a, Partial(a, Nodes, Costs)
  PROVE  /\ SeriesOf(a) \subseteq Series
         /\ \A s \in SeriesOf(a) : a[s[1]].price \in Prices
BY DEF SeriesOf, Partial, Series, Costs

LEMMA NothingIsEmpty == DOMAIN Nothing = {} /\ SeriesOf(Nothing) = {}
BY DEF Nothing, SeriesOf

(* What is left to do of the series at hand, one call after the other. *)
Orders == {<<"cpu", "ram", "total">>, <<"ram", "total">>, <<"total">>,
           <<"total", "cpu", "ram">>, <<"cpu", "ram">>, <<"ram">>}

LEMMA RangeOfOrder ==
  /\ Range(<<>>) = {}
  /\ Range(<<"cpu", "ram", "total">>) = {"cpu", "ram", "total"}
  /\ Range(<<"ram", "total">>) = {"ram", "total"}
  /\ Range(<<"total">>) = {"total"}
  /\ Range(<<"total", "cpu", "ram">>) = {"total", "cpu", "ram"}
  /\ Range(<<"cpu", "ram">>) = {"cpu", "ram"}
  /\ Range(<<"ram">>) = {"ram"}
<1>1. Range(<<>>) = {}
  BY DEF Range
<1>2. Range(<<"cpu", "ram", "total">>) = {"cpu", "ram", "total"}
  BY DEF Range
<1>3. Range(<<"ram", "total">>) = {"ram", "total"}
  BY DEF Range
<1>4. Range(<<"total">>) = {"total"}
  BY DEF Range
<1>5. Range(<<"total", "cpu", "ram">>) = {"total", "cpu", "ram"}
  BY DEF Range
<1>6. Range(<<"cpu", "ram">>) = {"cpu", "ram"}
  BY DEF Range
<1>7. Range(<<"ram">>) = {"ram"}
  BY DEF Range
<1>8. QED
  BY <1>1, <1>2, <1>3, <1>4, <1>5, <1>6, <1>7

LEMMA OrderStep ==
  ASSUME NEW order \in Orders
  PROVE  /\ order # <<>>
         /\ Head(order) \in Range(order) /\ Head(order) \in Gauges
         /\ Range(Tail(order)) = Range(order) \ {Head(order)}
         /\ Tail(order) = <<>> \/ Tail(order) \in Orders
         /\ Range(order) \subseteq Gauges
         /\ order \in Seq(Gauges) /\ Tail(order) \in Seq(Gauges)
<1>1. CASE order = <<"cpu", "ram", "total">>
  <2>1. Tail(order) = <<"ram", "total">> /\ Head(order) = "cpu"
    BY <1>1
  <2>2. QED
    BY <1>1, <2>1, RangeOfOrder DEF Orders, Gauges
<1>2. CASE order = <<"ram", "total">>
  <2>1. Tail(order) = <<"total">> /\ Head(order) = "ram"
    BY <1>2
  <2>2. QED
    BY <1>2, <2>1, RangeOfOrder DEF Orders, Gauges
<1>3. CASE order = <<"total">>
  <2>1. Tail(order) = <<>> /\ Head(order) = "total"
    BY <1>3
  <2>2. QED
    BY <1>3, <2>1, RangeOfOrder DEF Orders, Gauges
<1>4. CASE order = <<"total", "cpu", "ram">>
  <2>1. Tail(order) = <<"cpu", "ram">> /\ Head(order) = "total"
    BY <1>4
  <2>2. QED
    BY <1>4, <2>1, RangeOfOrder DEF Orders, Gauges
<1>5. CASE order = <<"cpu", "ram">>
  <2>1. Tail(order) = <<"ram">> /\ Head(order) = "cpu"
    BY <1>5
  <2>2. QED
    BY <1>5, <2>1, RangeOfOrder DEF Orders, Gauges
<1>6. CASE order = <<"ram">>
  <2>1. Tail(order) = <<>> /\ Head(order) = "ram"
    BY <1>6
  <2>2. QED
    BY <1>6, <2>1, RangeOfOrder DEF Orders, Gauges
<1>7. QED
  BY <1>1, <1>2, <1>3, <1>4, <1>5, <1>6 DEF Orders

(* What a step has to show: the type of what is exported follows from that *)
(* of the answers.                                                         *)
InputTypes ==
    /\ nodes \subseteq Nodes
    /\ costOf \in Worlds
    /\ pc \in {"collect", "set", "sweep", "select", "stopped"}
    /\ pc # "sweep" => toVisit \subseteq Nodes
    /\ Partial(answer, Nodes, Costs) /\ Partial(previous, Nodes, Costs)
    /\ DOMAIN exported = Gauges
    /\ tick \in BOOLEAN /\ stopCh \in BOOLEAN
Core == InputTypes /\ AtHand /\ ToVisitIsLeft /\ GaugesShow /\ SeenIsKnown

LEMMA CoreIsEnough == Core => IInv
<1> SUFFICES ASSUME Core PROVE IInv
  OBVIOUS
<1> USE DEF Core, InputTypes
<1>1. /\ Renewed(Open) \subseteq SeriesOf(answer)
      /\ \A g \in Gauges : Renewed(OpenFor(g)) \subseteq SeriesOf(answer)
  BY DEF Renewed
<1>2. /\ Kept(Open) \subseteq Renewed(Open) \cup SeriesOf(previous)
      /\ \A g \in Gauges : Kept(OpenFor(g)) \subseteq Renewed(OpenFor(g)) \cup SeriesOf(previous)
  <2>1. \A g \in Gauges : OpenFor(g) \subseteq Open
    BY RangeOfOrder DEF OpenFor, Open
  <2>2. pc = "sweep" => Open \subseteq SeriesOf(previous)
    BY DEF Open, AtHand
  <2>3. QED
    BY <2>1, <2>2 DEF Kept, Renewed, ToVisitIsLeft
<1>3. \A s \in SeriesOf(answer) : s \in Series /\ answer[s[1]].price \in Prices
  BY SeriesOfType
<1>4. \A s \in SeriesOf(previous) : s \in Series /\ previous[s[1]].price \in Prices
  BY SeriesOfType
<1>5. /\ Partial(nodesLastSeen, Series, BOOLEAN)
      /\ DOMAIN nodesLastSeen \subseteq SeriesOf(answer) \cup SeriesOf(previous)
  BY <1>1, <1>2, <1>3, <1>4 DEF SeenIsKnown, Partial
<1>6. ASSUME NEW g \in Gauges
      PROVE  Partial(exported[g], Series, Prices)
  <2> HIDE DEF Core, InputTypes
  <2>1. exported[g] = Content(OpenFor(g))
    BY DEF Core, GaugesShow
  <2>2. /\ DOMAIN exported[g] = Renewed(OpenFor(g)) \cup Kept(OpenFor(g))
        /\ \A s \in DOMAIN exported[g] :
              exported[g][s] = IF s \in Renewed(OpenFor(g)) THEN answer[s[1]].price
                                                            ELSE previous[s[1]].price
    BY <2>1 DEF Content
  <2>3. QED
    BY <1>1, <1>2, <1>3, <1>4, <2>1, <2>2 DEF Partial
<1>7. pc = "sweep" => toVisit \subseteq DOMAIN nodesLastSeen
  BY DEF SeenIsKnown, Kept
<1>8. series \in Series \cup {NoSeries} /\ pending \in Seq(Gauges)
  <2>1. pending = <<>> => pending \in Seq(Gauges)
    OBVIOUS
  <2>2. pending # <<>> => pending \in Orders
    BY DEF AtHand, Orders
  <2>3. QED
    BY <1>3, <1>4, <2>1, <2>2, OrderStep DEF AtHand
<1>9. QED
  BY <1>5, <1>6, <1>7, <1>8 DEF IInv, TypeOK

----------------------------------------------------------------------------
LEMMA InitCore == Init => Core
<1> SUFFICES ASSUME Init PROVE Core
  OBVIOUS
<1> USE DEF Init
<1>1. InputTypes
  BY NothingIsEmpty DEF InputTypes, Partial
<1>2. AtHand /\ ToVisitIsLeft
  BY DEF AtHand, ToVisitIsLeft
<1>3. Nothing = [s \in {} |-> {}]
  BY DEF Nothing
<1>4. GaugesShow
  BY <1>3, NothingIsEmpty DEF GaugesShow, Content, Renewed, Kept
<1>5. SeenIsKnown
  BY <1>3, NothingIsEmpty DEF SeenIsKnown, Renewed, Kept, Open
<1>6. QED
  BY <1>1, <1>2, <1>4, <1>5 DEF Core

LEMMA GetNodesCostCore ==
  ASSUME Core, NEW n \in Nodes, GetNodesCost(n)
  PROVE  Core'
<1> USE DEF Core, GetNodesCost, world
<1>1. costOf[n] \in Costs
  BY DEF InputTypes, Worlds
<1>2. InputTypes'
  BY <1>1 DEF InputTypes, Partial, With
<1>3. AtHand' /\ ToVisitIsLeft'
  BY DEF AtHand, ToVisitIsLeft
<1>4. GaugesShow'
  BY DEF GaugesShow, Content, Renewed, Kept, OpenFor
<1>5. SeenIsKnown'
  BY DEF SeenIsKnown, Renewed, Kept, Open
<1>6. QED
  BY <1>2, <1>3, <1>4, <1>5

LEMMA CollectedCore ==
  ASSUME Core, Collected
  PROVE  Core'
<1> USE DEF Core, Collected, world
<1>1. \A s \in SeriesOf(answer) : s[1] \in DOMAIN answer
  BY SeriesOfAnswer
<1>2. InputTypes'
  BY DEF InputTypes, Partial
<1>3. AtHand' /\ ToVisitIsLeft'
  BY DEF AtHand, ToVisitIsLeft
<1>4. GaugesShow'
  BY <1>1 DEF GaugesShow, Content, Renewed, Kept, OpenFor
<1>5. SeenIsKnown'
  BY <1>1 DEF SeenIsKnown, Renewed, Kept, Open
<1>6. QED
  BY <1>2, <1>3, <1>4, <1>5

LEMMA NextNodeCore ==
  ASSUME Core, NEW n \in Nodes, NextNode(n)
  PROVE  Core'
<1> USE DEF Core, NextNode, world
<1>1. /\ \A s \in SeriesOf(answer) : s[1] \in DOMAIN answer /\ s = <<s[1], answer[s[1]].labels>>
      /\ series' \in SeriesOf(answer) /\ series'[1] = n
  BY SeriesOfAnswer DEF ToVisitIsLeft
<1>2. InputTypes'
  BY DEF InputTypes, Partial
<1>3. AtHand' /\ ToVisitIsLeft'
  BY <1>1 DEF AtHand, ToVisitIsLeft, SeriesOf
<1>4. /\ Open = {} /\ \A g \in Gauges : OpenFor(g) = {}
      /\ Open' = {series}' /\ \A g \in Gauges : OpenFor(g)' = {series}'
  BY RangeOfOrder DEF Open, OpenFor, Gauges
<1>5. Renewed({series})' = Renewed({}) /\ Kept({series})' = Kept({})
  BY <1>1 DEF Renewed, Kept, SeriesOf
<1>6. GaugesShow'
  <2>1. Content({series})' = Content({})
    BY <1>5 DEF Content
  <2>2. QED
    BY <1>4, <2>1 DEF GaugesShow
<1>7. SeenIsKnown'
  BY <1>4, <1>5 DEF SeenIsKnown
<1>8. QED
  BY <1>2, <1>3, <1>6, <1>7
(* A call for the series at hand closes it for its own gauge and for no    *)
(* other, the last call for nodesLastSeen as well.                         *)
LEMMA OneCall ==
  ASSUME NEW h, h = Head(pending), pending \in Orders, pending' = Tail(pending),
         series' = IF Tail(pending) = <<>> THEN NoSeries ELSE series
  PROVE  /\ OpenFor(h) = {series} /\ OpenFor(h)' = {}
         /\ \A g \in Gauges \ {h} : OpenFor(g)' = OpenFor(g)
         /\ Open = {series}
         /\ Open' = IF Tail(pending) = <<>> THEN {} ELSE {series}
<1>1. /\ h \in Range(pending)
      /\ Range(pending') = Range(pending) \ {h}
      /\ pending # <<>>
  BY OrderStep
<1>2. Tail(pending) = <<>> => Range(pending') = {}
  BY RangeOfOrder
<1>3. CASE Tail(pending) = <<>>
  BY <1>1, <1>2, <1>3 DEF OpenFor, Open
<1>4. CASE Tail(pending) # <<>>
  <2>1. series' = series /\ pending' # <<>>
    BY <1>4
  <2>2. QED
    BY <1>1, <1>4, <2>1 DEF OpenFor, Open
<1>5. QED
  BY <1>3, <1>4

LEMMA SetGaugeCore ==
  ASSUME Core, SetGauge
  PROVE  Core'
<1> USE DEF Core, SetGauge, world
<1>1. /\ pending \in {<<"cpu", "ram", "total">>, <<"ram", "total">>, <<"total">>}
      /\ pending \in Orders
      /\ series \in SeriesOf(answer) /\ series[1] \notin toVisit
  BY DEF AtHand, Orders
<1>2. PICK h \in Gauges : h = Head(pending)
  BY <1>1, OrderStep
<1>3. Tail(pending) \in {<<"ram", "total">>, <<"total">>, <<>>}
  <2>1. /\ Tail(<<"cpu", "ram", "total">>) = <<"ram", "total">>
        /\ Tail(<<"ram", "total">>) = <<"total">>
        /\ Tail(<<"total">>) = <<>>
    OBVIOUS
  <2>2. QED
    BY <1>1, <2>1
<1>4. /\ OpenFor(h) = {series} /\ OpenFor(h)' = {}
      /\ \A g \in Gauges \ {h} : OpenFor(g)' = OpenFor(g)
      /\ Open = {series}
      /\ Open' = IF Tail(pending) = <<>> THEN {} ELSE {series}
  BY <1>1, <1>2, OneCall
<1>5. InputTypes'
  BY DEF InputTypes, Partial
<1>6. AtHand' /\ ToVisitIsLeft'
  BY <1>1, <1>3 DEF AtHand, ToVisitIsLeft
<1>7. GaugesShow'
  <2>1. ASSUME NEW g \in Gauges \ {h}
        PROVE  exported'[g] = Content(OpenFor(g))'
    <3>1. exported'[g] = exported[g]
      BY <1>2 DEF InputTypes
    <3>2. Content(OpenFor(g))' = Content(OpenFor(g))
      BY <1>4 DEF Content, Renewed, Kept
    <3>3. QED
      BY <3>1, <3>2 DEF GaugesShow
  <2>2. exported'[h] = With(Content({series}), series, answer[series[1]].price)
    BY <1>2, <1>4 DEF InputTypes, GaugesShow, AnsweredPrice
  <2>3. Content({})' = With(Content({series}), series, answer[series[1]].price)
    <3>1. /\ Renewed({series}) = Renewed({}) \ {series} /\ series \in Renewed({})
          /\ Kept({series}) = Kept({})
          /\ Renewed({})' = Renewed({}) /\ Kept({})' = Kept({})
      BY <1>1 DEF Renewed, Kept
    <3>2. QED
      BY <3>1 DEF With, Content
  <2>4. Content(OpenFor(h))' = Content({})'
    BY <1>4 DEF Content, Renewed, Kept
  <2>5. exported'[h] = Content(OpenFor(h))'
    BY <2>2, <2>3, <2>4
  <2>6. QED
    BY <2>1, <2>5 DEF GaugesShow
<1>8. SeenIsKnown'
  <2>1. CASE Tail(pending) = <<>>
    <3>1. nodesLastSeen' = With(nodesLastSeen, series, TRUE)
      BY <2>1 DEF MarkSeen
    <3>2. /\ Renewed(Open) = Renewed({}) \ {series} /\ series \in Renewed({})
          /\ Kept(Open) = Kept({})
          /\ Renewed(Open)' = Renewed({}) /\ Kept(Open)' = Kept({})
      BY <1>1, <1>4, <2>1 DEF Renewed, Kept
    <3>3. nodesLastSeen' \in [Renewed({}) \cup Kept({}) -> BOOLEAN]
      <4>1. DOMAIN nodesLastSeen \cup {series} = Renewed({}) \cup Kept({})
        BY <3>2 DEF SeenIsKnown
      <4>2. \A s \in DOMAIN nodesLastSeen : nodesLastSeen[s] \in BOOLEAN
        BY DEF SeenIsKnown
      <4>3. nodesLastSeen' = [s \in Renewed({}) \cup Kept({}) |->
                                IF s = series THEN TRUE ELSE nodesLastSeen[s]]
        BY <3>1, <4>1 DEF With
      <4>4. QED
        BY <4>1, <4>2, <4>3
    <3>4. \A s \in Renewed({}) \cup Kept({}) : nodesLastSeen'[s] <=> s \in Renewed({})
      BY <3>1, <3>2 DEF SeenIsKnown, With
    <3>5. QED
      BY <3>2, <3>3, <3>4 DEF SeenIsKnown
  <2>2. CASE Tail(pending) # <<>>
    <3>1. nodesLastSeen' = nodesLastSeen /\ Open' = Open
      BY <1>4, <2>2
    <3>2. Renewed(Open)' = Renewed(Open) /\ Kept(Open)' = Kept(Open)
      BY <3>1 DEF Renewed, Kept
    <3>3. QED
      BY <3>1, <3>2 DEF SeenIsKnown
  <2>3. QED
    BY <2>1, <2>2
<1>9. QED
  BY <1>5, <1>6, <1>7, <1>8

(* Every series of the answer is renewed now. *)
LEMMA AllSetCore ==
  ASSUME Core, AllSet
  PROVE  Core'
<1> USE DEF Core, AllSet, world
<1>1. /\ Open = {} /\ Open' = {}
      /\ \A g \in Gauges : OpenFor(g) = {} /\ OpenFor(g)' = {}
  BY RangeOfOrder DEF Open, OpenFor
<1>2. DOMAIN nodesLastSeen = SeriesOf(answer) \cup SeriesOf(previous)
  BY <1>1 DEF SeenIsKnown, Renewed, Kept
<1>3. InputTypes'
  BY DEF InputTypes, Partial
<1>4. AtHand' /\ ToVisitIsLeft'
  BY <1>2 DEF AtHand, ToVisitIsLeft
<1>5. GaugesShow'
  <2>1. Content({})' = Content({})
    BY <1>2 DEF Content, Renewed, Kept
  <2>2. QED
    BY <1>1, <2>1 DEF GaugesShow, Content, Renewed, Kept
<1>6. SeenIsKnown'
  BY <1>1, <1>2 DEF SeenIsKnown, Renewed, Kept
<1>7. QED
  BY <1>3, <1>4, <1>5, <1>6

LEMMA SweepCore ==
  ASSUME Core, NEW s \in Series, Sweep(s)
  PROVE  Core'
<1> USE DEF Core, Sweep, world
<1>1. Open = {} /\ \A g \in Gauges : OpenFor(g) = {}
  BY RangeOfOrder DEF Open, OpenFor
<1>2. nodesLastSeen[s] <=> s \in SeriesOf(answer)
  BY <1>1 DEF SeenIsKnown, Renewed, Kept
<1>3. InputTypes'
  BY DEF InputTypes, Partial
<1>4. AtHand' /\ ToVisitIsLeft'
  BY <1>2 DEF AtHand, ToVisitIsLeft, DeletionOrder
<1>5. GaugesShow'
  <2>1. CASE nodesLastSeen[s]
    <3>1. \A g \in Gauges : OpenFor(g)' = {}
      BY <2>1, RangeOfOrder DEF OpenFor
    <3>2. Content({})' = Content({})
      BY <1>2, <2>1 DEF Content, Renewed, Kept
    <3>3. \A g \in Gauges : Content(OpenFor(g))' = Content({})'
      BY <3>1 DEF Content, Renewed, Kept
    <3>4. QED
      BY <1>1, <3>2, <3>3 DEF GaugesShow
  <2>2. CASE ~nodesLastSeen[s]
    <3>1. \A g \in Gauges : OpenFor(g)' = {s}
      BY <2>2, RangeOfOrder DEF OpenFor, DeletionOrder, Gauges
    <3>2. Content({s})' = Content({})
      BY DEF Content, Renewed, Kept
    <3>3. QED
      BY <1>1, <2>2, <3>1, <3>2 DEF GaugesShow, Content, Renewed, Kept
  <2>3. QED
    BY <2>1, <2>2
<1>6. SeenIsKnown'
  <2>1. CASE nodesLastSeen[s]
    BY <1>1, <1>2, <2>1 DEF SeenIsKnown, Renewed, Kept, Open, Reset
  <2>2. CASE ~nodesLastSeen[s]
    BY <1>1, <1>2, <2>2 DEF SeenIsKnown, Renewed, Kept, Open, DeletionOrder
  <2>3. QED
    BY <2>1, <2>2
<1>7. QED
  BY <1>3, <1>4, <1>5, <1>6
LEMMA DeleteLabelValuesCore ==
  ASSUME Core, DeleteLabelValues
  PROVE  Core'
<1> USE DEF Core, DeleteLabelValues, world
<1>1. /\ pending \in {<<"total", "cpu", "ram">>, <<"cpu", "ram">>, <<"ram">>}
      /\ pending \in Orders
      /\ series \notin SeriesOf(answer) \cup toVisit
  BY DEF AtHand, Orders
<1>2. PICK h \in Gauges : h = Head(pending)
  BY <1>1, OrderStep
<1>3. Tail(pending) \in {<<"cpu", "ram">>, <<"ram">>, <<>>}
  <2>1. /\ Tail(<<"total", "cpu", "ram">>) = <<"cpu", "ram">>
        /\ Tail(<<"cpu", "ram">>) = <<"ram">>
        /\ Tail(<<"ram">>) = <<>>
    OBVIOUS
  <2>2. QED
    BY <1>1, <2>1
<1>4. /\ OpenFor(h) = {series} /\ OpenFor(h)' = {}
      /\ \A g \in Gauges \ {h} : OpenFor(g)' = OpenFor(g)
      /\ Open = {series}
      /\ Open' = IF Tail(pending) = <<>> THEN {} ELSE {series}
  BY <1>1, <1>2, OneCall
<1>5. InputTypes'
  BY DEF InputTypes, Partial
<1>6. AtHand' /\ ToVisitIsLeft'
  BY <1>1, <1>3 DEF AtHand, ToVisitIsLeft
<1>7. GaugesShow'
  <2>1. ASSUME NEW g \in Gauges \ {h}
        PROVE  exported'[g] = Content(OpenFor(g))'
    <3>1. exported'[g] = exported[g]
      BY <1>2 DEF InputTypes
    <3>2. Content(OpenFor(g))' = Content(OpenFor(g))
      BY <1>4 DEF Content, Renewed, Kept
    <3>3. QED
      BY <3>1, <3>2 DEF GaugesShow
  <2>2. exported'[h] = Without(Content({series}), series)
    BY <1>2, <1>4 DEF InputTypes, GaugesShow
  <2>3. Content({})' = Without(Content({series}), series)
    <3>1. /\ Renewed({series}) = Renewed({}) /\ series \notin Renewed({})
          /\ Kept({series}) = Kept({}) \cup {series} /\ series \notin Kept({})
          /\ Renewed({})' = Renewed({}) /\ Kept({})' = Kept({})
      BY <1>1 DEF Renewed, Kept
    <3>2. QED
      BY <3>1 DEF Without, Content
  <2>4. Content(OpenFor(h))' = Content({})'
    BY <1>4 DEF Content, Renewed, Kept
  <2>5. exported'[h] = Content(OpenFor(h))'
    BY <2>2, <2>3, <2>4
  <2>6. QED
    BY <2>1, <2>5 DEF GaugesShow
<1>8. SeenIsKnown'
  <2>1. CASE Tail(pending) = <<>>
    <3>1. nodesLastSeen' = Without(nodesLastSeen, series)
      BY <2>1
    <3>2. /\ Renewed(Open) = Renewed({}) /\ series \notin Renewed({})
          /\ Kept(Open) = Kept({}) \cup {series} /\ series \notin Kept({})
          /\ Renewed(Open)' = Renewed({}) /\ Kept(Open)' = Kept({})
      BY <1>1, <1>4, <2>1 DEF Renewed, Kept
    <3>3. nodesLastSeen' = [s \in Renewed({}) \cup Kept({}) |-> nodesLastSeen[s]]
      BY <3>1, <3>2 DEF SeenIsKnown, Without
    <3>4. nodesLastSeen' \in [Renewed({}) \cup Kept({}) -> BOOLEAN]
      BY <3>2, <3>3 DEF SeenIsKnown
    <3>5. QED
      BY <3>2, <3>3, <3>4 DEF SeenIsKnown
  <2>2. CASE Tail(pending) # <<>>
    <3>1. nodesLastSeen' = nodesLastSeen /\ Open' = Open
      BY <1>4, <2>2
    <3>2. Renewed(Open)' = Renewed(Open) /\ Kept(Open)' = Kept(Open)
      BY <3>1 DEF Renewed, Kept
    <3>3. QED
      BY <3>1, <3>2 DEF SeenIsKnown
  <2>3. QED
    BY <2>1, <2>2
<1>9. QED
  BY <1>5, <1>6, <1>7, <1>8

(* The pass is over: nothing is left that the answer does not name. *)
LEMMA SweptCore ==
  ASSUME Core, Swept
  PROVE  Core'
<1> USE DEF Core, Swept, world
<1>1. /\ Open = {} /\ Open' = {}
      /\ \A g \in Gauges : OpenFor(g) = {} /\ OpenFor(g)' = {}
  BY RangeOfOrder DEF Open, OpenFor
<1>2. InputTypes' /\ AtHand' /\ ToVisitIsLeft'
  BY DEF InputTypes, Partial, AtHand, ToVisitIsLeft
<1>3. GaugesShow'
  BY <1>1 DEF GaugesShow, Content, Renewed, Kept
<1>4. SeenIsKnown'
  BY <1>1 DEF SeenIsKnown, Renewed, Kept
<1>5. QED
  BY <1>2, <1>3, <1>4

LEMMA StopCore ==
  ASSUME Core, Stop
  PROVE  Core'
<1> USE DEF Core, Stop, world
<1>1. InputTypes' /\ AtHand' /\ ToVisitIsLeft'
  BY DEF InputTypes, Partial, AtHand, ToVisitIsLeft
<1>2. GaugesShow'
  BY DEF GaugesShow, Content, OpenFor, Renewed, Kept
<1>3. SeenIsKnown'
  BY DEF SeenIsKnown, Open, Renewed, Kept
<1>4. QED
  BY <1>1, <1>2, <1>3

(* With the next pass the answer becomes the one before, all of it. *)
LEMMA NextPassCore ==
  ASSUME Core, NextPass
  PROVE  Core'
<1> USE DEF Core, NextPass, world
<1>1. InputTypes'
  BY NothingIsEmpty DEF InputTypes, Partial
<1>2. AtHand' /\ ToVisitIsLeft'
  BY DEF AtHand, ToVisitIsLeft
<1>3. SeriesOf(previous)' = SeriesOf(answer)
  BY DEF SeriesOf
<1>4. GaugesShow'
  BY <1>3 DEF GaugesShow, Content, OpenFor, Renewed, Kept
<1>5. SeenIsKnown'
  BY <1>3 DEF SeenIsKnown, Open, Renewed, Kept
<1>6. QED
  BY <1>1, <1>2, <1>4, <1>5

(* What others do: the ticker, the context, the cluster and the cloud. *)
LEMMA OthersCore ==
  ASSUME Core,
         UNCHANGED <<pc, toVisit, answer, series, pending, nodesLastSeen, exported, previous>>,
         nodes' \subseteq Nodes, costOf' \in Worlds, tick' \in BOOLEAN, stopCh' \in BOOLEAN
  PROVE  Core'
<1> USE DEF Core
<1>1. InputTypes' /\ AtHand' /\ ToVisitIsLeft'
  BY DEF InputTypes, Partial, AtHand, ToVisitIsLeft
<1>2. GaugesShow'
  BY DEF GaugesShow, Content, OpenFor, Renewed, Kept
<1>3. SeenIsKnown'
  BY DEF SeenIsKnown, Open, Renewed, Kept
<1>4. QED
  BY <1>1, <1>2, <1>3

LEMMA NextCore == Core /\ [Next]_vars => Core'
<1> SUFFICES ASSUME Core, [Next]_vars PROVE Core'
  OBVIOUS
<1>1. CASE Start
  BY <1>1, GetNodesCostCore, CollectedCore, NextNodeCore, SetGaugeCore, AllSetCore,
     SweepCore, DeleteLabelValuesCore, SweptCore, StopCore, NextPassCore DEF Start
<1>2. CASE Tick
  BY <1>2, OthersCore DEF Tick, world, Core, InputTypes
<1>3. CASE StopRequested
  BY <1>3, OthersCore DEF StopRequested, world, Core, InputTypes
<1>4. CASE WorldChanges
  BY <1>4, OthersCore DEF WorldChanges, Core, InputTypes
<1>5. CASE UNCHANGED vars
  BY <1>5, OthersCore DEF vars, Core, InputTypes
<1>6. QED
  BY <1>1, <1>2, <1>3, <1>4, <1>5 DEF Next

LEMMA CoreHolds == Spec => []Core
<1>1. Core /\ [Next]_vars => Core'
  BY NextCore
<1>2. QED
  BY InitCore, <1>1, PTL DEF Spec

----------------------------------------------------------------------------
(* Where the pass is determines what is exported, at every moment. *)
THEOREM PassDeterminesGauges == Spec => []IInv
BY CoreHolds, CoreIsEnough, PTL

(* Between two passes a scrape sees the last answer, whole and nothing but *)
(* it, in each of the three gauges.                                        *)
THEOREM MirrorsAtRest == Spec => []MirrorAtRest
<1>1. IInv => MirrorAtRest
  <2> SUFFICES ASSUME IInv, pc \in {"select", "stopped"}, NEW g \in Gauges
               PROVE  exported[g] = Shows(answer)
    BY DEF MirrorAtRest
  <2>1. exported[g] = Content(OpenFor(g))
    BY DEF IInv, GaugesShow
  <2>2. QED
    BY <2>1 DEF Content, Renewed, Kept, Shows
<1>2. QED
  BY PassDeterminesGauges, <1>1, PTL

(* At any moment, whatever is exported is what the last or the last but    *)
(* one answer says of that very series.                                    *)
THEOREM NothingStale == Spec => []NeverStale
<1>1. IInv => NeverStale
  <2> SUFFICES ASSUME IInv, NEW g \in Gauges, NEW s \in DOMAIN exported[g]
               PROVE  \/ s \in SeriesOf(answer) /\ exported[g][s] = Shows(answer)[s]
                      \/ s \in SeriesOf(previous) /\ exported[g][s] = Shows(previous)[s]
    BY DEF NeverStale
  <2>1. exported[g] = Content(OpenFor(g))
    BY DEF IInv, GaugesShow
  <2>2. Renewed(OpenFor(g)) \subseteq SeriesOf(answer)
    BY DEF Renewed
  <2>3. Kept(OpenFor(g)) \subseteq Renewed(OpenFor(g)) \cup SeriesOf(previous)
    BY RangeOfOrder DEF IInv, TypeOK, Kept, Renewed, OpenFor, AtHand, ToVisitIsLeft
  <2>4. QED
    BY <2>1, <2>2, <2>3 DEF Content, Shows
<1>2. QED
  BY PassDeterminesGauges, <1>1, PTL

(* A total is never exported for a series without its parts: it is set     *)
(* last and deleted first.                                                 *)
THEOREM TotalsHaveParts == Spec => []TotalHasParts
<1>1. IInv => TotalHasParts
  <2> SUFFICES ASSUME IInv PROVE TotalHasParts
    OBVIOUS
  <2> USE DEF IInv
  <2>1. \A g \in Gauges : DOMAIN exported[g] = Renewed(OpenFor(g)) \cup Kept(OpenFor(g))
    BY DEF GaugesShow, Content
  <2>2. CASE pc = "set"
    <3>1. OpenFor("cpu") \subseteq OpenFor("total") /\ OpenFor("ram") \subseteq OpenFor("total")
      BY <2>2, RangeOfOrder DEF OpenFor, AtHand
    <3>2. QED
      BY <2>1, <2>2, <3>1 DEF TotalHasParts, Renewed, Kept, Gauges
  <2>3. CASE pc = "sweep"
    <3>1. OpenFor("total") \subseteq OpenFor("cpu") /\ OpenFor("total") \subseteq OpenFor("ram")
      BY <2>3, RangeOfOrder DEF OpenFor, AtHand
    <3>2. QED
      BY <2>1, <2>3, <3>1 DEF TotalHasParts, Renewed, Kept, Gauges
  <2>4. CASE pc \notin {"set", "sweep"}
    BY <2>1, <2>4 DEF TotalHasParts, Renewed, Kept, Gauges, TypeOK
  <2>5. QED
    BY <2>2, <2>3, <2>4
<1>2. QED
  BY PassDeterminesGauges, <1>1, PTL

(* A node that stays with its labels never drops out of a scrape: what a   *)
(* pass deletes, its answer does not name.                                 *)
THEOREM NothingFlickers == Spec => NoFlicker
<1>1. IInv /\ [Next]_vars => [DeletesOnlyGone]_vars
  <2> SUFFICES ASSUME IInv, Next PROVE DeletesOnlyGone
    BY DEF DeletesOnlyGone, vars
  <2>1. CASE DeleteLabelValues
    <3>1. series \notin SeriesOf(answer)
      BY <2>1 DEF IInv, AtHand, DeleteLabelValues
    <3>2. \A g \in Gauges : DOMAIN exported[g] \ DOMAIN exported'[g] \subseteq {series}
      BY <2>1 DEF IInv, TypeOK, DeleteLabelValues, Without
    <3>3. QED
      BY <3>1, <3>2 DEF DeletesOnlyGone
  <2>2. CASE SetGauge
    <3>1. \A g \in Gauges : DOMAIN exported[g] \subseteq DOMAIN exported'[g]
      BY <2>2 DEF IInv, TypeOK, SetGauge, With
    <3>2. QED
      BY <3>1 DEF DeletesOnlyGone
  <2>3. CASE UNCHANGED exported
    BY <2>3 DEF DeletesOnlyGone
  <2>4. QED
    BY <2>1, <2>2, <2>3 DEF Next, Start, GetNodesCost, Collected, NextNode, AllSet, Sweep,
       Swept, Stop, NextPass, Tick, StopRequested, WorldChanges
<1>2. QED
  BY PassDeterminesGauges, <1>1, PTL DEF Spec, NoFlicker
=============================================================================
