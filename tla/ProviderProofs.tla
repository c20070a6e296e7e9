--------------------------- MODULE ProviderProofs ---------------------------
(***************************************************************************)
(* Proofs about the Tencent Cloud provider: its price cache, for every set *)
(* of instances, offers and prices, every size of a batch and any number   *)
(* of changes, and the price of a node or a pod, for every configuration,  *)
(* machine and price, and every number of decimals.                        *)
(*                                                                         *)
(* Of the cache: the inductive invariant IInv, and that every step of the  *)
(* refresher is one of a round of PriceFeed, or one that no reader of the  *)
(* cache can tell.  Of the prices: the arithmetic of fractions in lowest   *)
(* terms, first what may be infinite or no number, then what is exact over *)
(* a common denominator and how far rounding leads away from it; and with  *)
(* it the inductive invariant PricingInv and what follows from it.         *)
(***************************************************************************)
EXTENDS PriceCache, NodeCost, WellFoundedInduction, TLAPS

----------------------------------------------------------------------------
(* The price cache.                                                        *)

(* What the cache becomes at the end of a round is a cache again. *)
LEMMA UpsertType ==
  ASSUME NEW cache, NEW fresh, NEW listed,
         Partial(cache, Instances, Entries), Partial(fresh, Instances, Entries)
  PROVE  /\ DOMAIN UpsertAndEvict(cache, fresh, listed)
               = (DOMAIN cache \cup DOMAIN fresh) \cap listed
         /\ Partial(UpsertAndEvict(cache, fresh, listed), Instances, Entries)
BY DEF UpsertAndEvict, Partial

(* The facts of any moment are facts about instances, offers and prices. *)
LEMMA FactsType ==
  ASSUME Partial(configOf, Instances, Offers), tariff \in [Offers -> Prices]
  PROVE  /\ Facts.configs \subseteq Instances \X Offers
         /\ Facts.prices \subseteq Offers \X Prices
         /\ \A i \in DOMAIN configOf : <<i, configOf[i]>> \in Facts.configs
         /\ \A o \in Offers : <<o, tariff[o]>> \in Facts.prices
BY DEF Facts, Partial

----------------------------------------------------------------------------
(* The invariant holds at the start. *)
LEMMA InitIInv == Init => IInv
<1> SUFFICES ASSUME Init PROVE IInv
  OBVIOUS
<1> USE DEF Init
<1>1. DOMAIN Nothing = {} /\ DOMAIN configOf = Instances
  BY DEF Nothing
<1>2. TypeOK
  <2>1. /\ Partial(described, nodeIds \ toDescribe, Offers)
        /\ Partial(insPrices, DOMAIN described \ toPrice, Entries)
        /\ Partial(instances, Instances, Entries)
        /\ Partial(configOf, Instances, Offers)
    BY <1>1 DEF Partial
  <2>2. churn \in 0..MaxChurn
    BY PriceCacheAssumption
  <2>3. QED
    BY <1>1, <2>1, <2>2 DEF TypeOK
<1>3. InScope
  BY DEF InScope, InRound
<1>4. FactsKept
  BY DEF FactsKept, InRound, NoFacts
<1>5. GatheredIsRecent
  BY <1>1 DEF GatheredIsRecent
<1>6. QED
  BY <1>2, <1>3, <1>4, <1>5 DEF IInv

(* It holds between rounds, however the round before has ended. *)
LEMMA RoundOverIInv ==
  ASSUME IInv, RoundEnds, UNCHANGED cloud, pc' \in {"idle", "exited"},
         warm' \in BOOLEAN, Partial(instances, Instances, Entries)'
  PROVE  IInv'
<1> USE DEF IInv, RoundEnds, cloud
<1>1. DOMAIN Nothing = {}
  BY DEF Nothing
<1>2. TypeOK'
  BY <1>1 DEF TypeOK, Partial
<1>3. InScope'
  BY DEF InScope, InRound
<1>4. FactsKept'
  BY DEF FactsKept, InRound, NoFacts
<1>5. GatheredIsRecent'
  BY <1>1 DEF GatheredIsRecent
<1>6. QED
  BY <1>2, <1>3, <1>4, <1>5 DEF IInv

LEMMA RoundFailsIInv ==
  ASSUME IInv, RoundFails, UNCHANGED cloud
  PROVE  IInv'
BY RoundOverIInv DEF RoundFails, IInv, TypeOK, Partial

LEMMA StartRoundIInv ==
  ASSUME IInv, StartRound
  PROVE  IInv'
<1> USE DEF IInv, StartRound, cloud
<1>0. /\ described = Nothing /\ insPrices = Nothing
      /\ DOMAIN Nothing = {} /\ toDescribe = {} /\ toPrice = {}
  BY DEF InScope, Nothing
<1>1. TypeOK'
  BY <1>0 DEF TypeOK, Partial
<1>2. InScope'
  BY <1>0 DEF InScope, InRound
<1>3. FactsKept'
  <2>1. Facts' = Facts
    BY DEF Facts
  <2>2. Facts \in [configs : SUBSET (Instances \X Offers), prices : SUBSET (Offers \X Prices)]
    BY FactsType DEF Facts, TypeOK
  <2>3. QED
    BY <2>1, <2>2 DEF FactsKept
<1>4. GatheredIsRecent'
  BY <1>0 DEF GatheredIsRecent
<1>5. QED
  BY <1>1, <1>2, <1>3, <1>4

LEMMA RefreshStandardIInv ==
  ASSUME IInv, NEW ok \in BOOLEAN, refreshPricingCache(ok)
  PROVE  IInv'
<1>1. CASE ~ok
  BY <1>1, RoundFailsIInv DEF refreshPricingCache
<1>2. CASE ok
  <2> USE <1>2 DEF IInv, refreshPricingCache, cloud
  <2>1. described = Nothing /\ insPrices = Nothing /\ DOMAIN Nothing = {}
    BY DEF InScope, Nothing
  <2>2. TypeOK'
    BY <2>1 DEF TypeOK, InScope, Partial
  <2>3. InScope'
    BY DEF InScope, InRound
  <2>4. FactsKept'
    BY DEF FactsKept, InRound, Facts
  <2>5. GatheredIsRecent'
    BY <2>1 DEF GatheredIsRecent
  <2>6. QED
    BY <2>2, <2>3, <2>4, <2>5
<1>3. QED
  BY <1>1, <1>2

(* Each instance of the answer is gathered as the cloud has it now, and    *)
(* what was gathered before is since the round began all the same.         *)
LEMMA GetCVMInstancesIInv ==
  ASSUME IInv, NEW b \in SUBSET toDescribe, NEW ok \in BOOLEAN, GetCVMInstances(b, ok)
  PROVE  IInv'
<1>1. CASE ~ok
  BY <1>1, RoundFailsIInv DEF GetCVMInstances
<1>2. CASE ok
  <2> USE <1>2 DEF IInv, GetCVMInstances, cloud, Remaining
  <2>1. /\ insPrices = Nothing /\ DOMAIN Nothing = {} /\ toPrice = {}
    BY DEF InScope, Nothing
  <2>2. /\ DOMAIN described' = DOMAIN described \cup (b \cap DOMAIN configOf)
        /\ \A i \in DOMAIN described' :
              described'[i] = IF i \in b THEN configOf[i] ELSE described[i]
    OBVIOUS
  <2>3. /\ \A i \in DOMAIN described' : described'[i] \in Offers
        /\ DOMAIN described' \subseteq nodeIds \ toDescribe'
    BY <2>2 DEF TypeOK, Partial
  <2>4. TypeOK'
    BY <2>1, <2>3 DEF TypeOK, Partial
  <2>5. InScope'
    BY DEF InScope, InRound
  <2>6. FactsKept'
    BY DEF FactsKept, InRound, Facts
  <2>7. GatheredIsRecent'
    <3>1. \A i \in DOMAIN configOf : <<i, configOf[i]>> \in since.configs
      BY FactsType DEF TypeOK, FactsKept, InRound
    <3>2. since' = since /\ insPrices' = Nothing
      BY <2>1
    <3>3. \A i \in DOMAIN described' : <<i, described'[i]>> \in since'.configs
      BY <2>2, <3>1, <3>2 DEF GatheredIsRecent, TypeOK, Partial
    <3>4. \A i \in DOMAIN insPrices' : Feed!IsRecent(i, insPrices[i])'
      BY <2>1, <3>2
    <3>5. QED
      BY <3>3, <3>4 DEF GatheredIsRecent
  <2>8. QED
    BY <2>4, <2>5, <2>6, <2>7
<1>3. QED
  BY <1>1, <1>2

LEMMA AllDescribedIInv ==
  ASSUME IInv, NEW ok \in BOOLEAN, AllDescribed(ok)
  PROVE  IInv'
<1>1. CASE ~ok
  BY <1>1, RoundFailsIInv DEF AllDescribed
<1>2. CASE ok
  <2> USE <1>2 DEF IInv, AllDescribed, cloud
  <2>1. insPrices = Nothing /\ DOMAIN Nothing = {}
    BY DEF InScope, Nothing
  <2>2. TypeOK'
    BY <2>1 DEF TypeOK, Partial
  <2>3. InScope'
    BY DEF InScope, InRound
  <2>4. FactsKept'
    BY DEF FactsKept, InRound, Facts
  <2>5. GatheredIsRecent'
    BY <2>1 DEF GatheredIsRecent
  <2>6. QED
    BY <2>2, <2>3, <2>4, <2>5
<1>3. QED
  BY <1>1, <1>2

(* A price is that of the offer the instance was found with, as it is now. *)
LEMMA GetCVMInstancesPriceIInv ==
  ASSUME IInv, NEW i \in toPrice, NEW ok \in BOOLEAN, GetCVMInstancesPrice(i, ok)
  PROVE  IInv'
<1> USE DEF IInv, GetCVMInstancesPrice, cloud
<1> DEFINE entry == [offer |-> described[i], price |-> tariff[described[i]]]
<1>1. i \in DOMAIN described /\ described[i] \in Offers /\ entry \in Entries
  BY DEF TypeOK, Partial, Entries
<1>2. /\ DOMAIN insPrices' \subseteq DOMAIN insPrices \cup {i}
      /\ \A j \in DOMAIN insPrices' :
            \/ j = i /\ insPrices'[j] = entry
            \/ j \in DOMAIN insPrices /\ insPrices'[j] = insPrices[j]
  BY DEF With, InquiredPrice
<1>3. TypeOK'
  <2>1. Partial(insPrices, DOMAIN described \ toPrice, Entries)'
    BY <1>1, <1>2 DEF TypeOK, Partial
  <2>2. QED
    BY <2>1 DEF TypeOK, Partial
<1>4. InScope'
  BY DEF InScope, InRound
<1>5. FactsKept'
  BY DEF FactsKept, InRound, Facts
<1>6. GatheredIsRecent'
  <2>1. <<described[i], tariff[described[i]]>> \in since.prices
    BY <1>1, FactsType DEF TypeOK, FactsKept, InRound
  <2>2. <<i, described[i]>> \in since.configs
    BY <1>1 DEF GatheredIsRecent
  <2>3. Feed!IsRecent(i, entry)
    BY <2>1, <2>2 DEF Feed!IsRecent
  <2>4. \A j \in DOMAIN insPrices' : Feed!IsRecent(j, insPrices'[j])
    BY <1>2, <2>3 DEF GatheredIsRecent
  <2>5. QED
    BY <2>4 DEF GatheredIsRecent, Feed!IsRecent
<1>7. QED
  BY <1>3, <1>4, <1>5, <1>6

LEMMA PublishIInv ==
  ASSUME IInv, refreshInstancePricingCache
  PROVE  IInv'
<1> USE DEF IInv, refreshInstancePricingCache
<1>1. Partial(insPrices, Instances, Entries)
  BY DEF TypeOK, Partial
<1>2. Partial(instances, Instances, Entries)'
  BY <1>1, UpsertType DEF TypeOK, Partial
<1>3. QED
  BY <1>2, RoundOverIInv

(* A change of the cloud adds its facts to those of the round. *)
LEMMA ChangesIInv ==
  ASSUME IInv, Changes, nodes' \subseteq Instances, outage' \in BOOLEAN,
         Partial(configOf, Instances, Offers)', tariff' \in [Offers -> Prices]
  PROVE  IInv'
<1> USE DEF IInv, Changes, round
<1>1. TypeOK'
  BY PriceCacheAssumption DEF TypeOK, Partial
<1>2. InScope'
  BY DEF InScope, InRound
<1>3. /\ Facts'.configs \subseteq Instances \X Offers
      /\ Facts'.prices \subseteq Offers \X Prices
  BY DEF Facts, Partial
<1>4. FactsKept'
  BY <1>3 DEF FactsKept, InRound, NoFacts, Together
<1>5. GatheredIsRecent'
  <2>1. since.configs \subseteq since'.configs /\ since.prices \subseteq since'.prices
    BY DEF InScope, InRound, Together, NoFacts
  <2>2. QED
    BY <2>1 DEF GatheredIsRecent, Feed!IsRecent
<1>6. QED
  BY <1>1, <1>2, <1>4, <1>5

LEMMA EnvironmentIInv ==
  ASSUME IInv, Environment
  PROVE  IInv'
<1> USE DEF IInv
<1>1. ASSUME NEW i \in Instances, NodeJoins(i)
      PROVE  IInv'
  BY <1>1, ChangesIInv DEF NodeJoins, TypeOK, Partial
<1>2. ASSUME NEW i \in Instances, InstanceTerminated(i)
      PROVE  IInv'
  BY <1>2, ChangesIInv DEF InstanceTerminated, TypeOK, Partial, Without
<1>3. ASSUME NEW i \in Instances, NEW o \in Offers, InstanceModified(i, o)
      PROVE  IInv'
  BY <1>3, ChangesIInv DEF InstanceModified, TypeOK, Partial
<1>4. ASSUME NEW o \in Offers, NEW p \in Prices, OfferRepriced(o, p)
      PROVE  IInv'
  BY <1>4, ChangesIInv DEF OfferRepriced, TypeOK, Partial
<1>5. CASE OutageStarts
  BY <1>5, ChangesIInv DEF OutageStarts, TypeOK, Partial
<1>6. ASSUME /\ UNCHANGED <<configOf, tariff, churn, pc, warm, round, instances, since>>
             /\ nodes' \subseteq nodes
             /\ outage' \in BOOLEAN
      PROVE  IInv'
  BY <1>6 DEF round, TypeOK, InScope, FactsKept, GatheredIsRecent, InRound, Partial,
              Facts, Feed!IsRecent
<1>7. CASE OutageEnds
  BY <1>7, <1>6 DEF OutageEnds
<1>8. ASSUME NEW i \in Instances, NodeLeaves(i)
      PROVE  IInv'
  BY <1>8, <1>6 DEF NodeLeaves, TypeOK
<1>9. QED
  BY <1>1, <1>2, <1>3, <1>4, <1>5, <1>7, <1>8 DEF Environment

LEMMA NextIInv == IInv /\ [Next]_vars => IInv'
<1> SUFFICES ASSUME IInv, [Next]_vars PROVE IInv'
  OBVIOUS
<1>1. CASE Refresher
  BY <1>1, StartRoundIInv, RefreshStandardIInv, GetCVMInstancesIInv,
     AllDescribedIInv, GetCVMInstancesPriceIInv, PublishIInv DEF Refresher
<1>2. CASE Environment
  BY <1>2, EnvironmentIInv
<1>3. CASE UNCHANGED vars
  BY <1>3 DEF vars, IInv, TypeOK, InScope, FactsKept, GatheredIsRecent, InRound,
              Partial, Facts, Feed!IsRecent
<1>4. QED
  BY <1>1, <1>2, <1>3 DEF Next

(* In every round the facts gathered are recent: whatever the goroutine    *)
(* has in its hands was true of the cloud at some moment since it read the *)
(* list of nodes, whichever calls failed and whatever changed meanwhile.   *)
THEOREM GatheredStaysRecent == Spec => []IInv
<1>1. IInv /\ [Next]_vars => IInv'
  BY NextIInv
<1>2. QED
  BY InitIInv, <1>1, PTL DEF Spec

----------------------------------------------------------------------------
(* The rounds of the refresher are rounds of PriceFeed. *)
LEMMA FeedFacts == Feed!Facts = Facts
BY DEF Feed!Facts, Facts

LEMMA FeedInit == Init => Feed!Init
BY DEF Init, Feed!Init, Nothing, Feed!Nothing, NoFacts, Feed!NoFacts

LEMMA FeedBegins ==
  ASSUME StartRound
  PROVE  Feed!BeginRound
BY FeedFacts DEF StartRound, cloud, Feed!BeginRound, Feed!cloud

(* A round is open, for PriceFeed, between the read of the list of nodes   *)
(* and the end of the round, which is an abandonment wherever it fails.    *)
LEMMA FeedAbandons ==
  ASSUME IInv, InRound, RoundFails, UNCHANGED cloud
  PROVE  Feed!Abandon
BY DEF RoundFails, RoundEnds, InRound, cloud, Feed!Abandon, Feed!RoundIsOver, Feed!cloud,
       NoFacts, Feed!NoFacts, IInv, TypeOK

(* The critical section writes what is recent, keeps what is listed and    *)
(* drops the rest, at once.                                                *)
LEMMA FeedPublishes ==
  ASSUME IInv, refreshInstancePricingCache
  PROVE  Feed!Publish
<1> USE DEF IInv, refreshInstancePricingCache, RoundEnds
<1>1. Feed!RoundIsOver
  BY DEF Feed!RoundIsOver, cloud, Feed!cloud, NoFacts, Feed!NoFacts
<1>2. Partial(insPrices, Instances, Entries) /\ Partial(instances, Instances, Entries)
  BY DEF TypeOK, Partial
<1>3. /\ DOMAIN instances' = (DOMAIN instances \cup DOMAIN insPrices) \cap nodeIds
      /\ \A i \in DOMAIN instances' :
            instances'[i] = IF i \in DOMAIN insPrices THEN insPrices[i] ELSE instances[i]
      /\ instances' = [i \in DOMAIN instances' |-> instances'[i]]
  BY DEF UpsertAndEvict
<1>4. instances' \in Feed!PartialFunctions(nodeIds, Feed!Entries)
  <2>1. \A i \in DOMAIN instances' : instances'[i] \in Entries
    BY <1>2, <1>3 DEF Partial
  <2>2. Feed!Entries = Entries
    BY DEF Feed!Entries, Entries
  <2>3. instances' \in [DOMAIN instances' -> Feed!Entries] /\ DOMAIN instances' \subseteq nodeIds
    BY <1>3, <2>1, <2>2
  <2>4. QED
    BY <2>3 DEF Feed!PartialFunctions
<1>5. Feed!IsUpdate(instances')
  BY <1>3 DEF Feed!IsUpdate, GatheredIsRecent
<1>6. QED
  BY <1>1, <1>4, <1>5 DEF Feed!Publish

(* The calls in between show nothing. *)
LEMMA FeedRefresher ==
  ASSUME IInv, Refresher
  PROVE  [Feed!Next]_Feed!feedVars
<1>1. CASE StartRound
  BY <1>1, FeedBegins DEF Feed!Next, Feed!Round
<1>2. CASE refreshInstancePricingCache
  BY <1>2, FeedPublishes DEF Feed!Next, Feed!Round
<1>3. CASE InRound /\ RoundFails /\ UNCHANGED cloud
  BY <1>3, FeedAbandons DEF Feed!Next, Feed!Round
<1>4. CASE InRound /\ InRound' /\ UNCHANGED <<cloud, warm, nodeIds, since, instances>>
  BY <1>4 DEF InRound, cloud, Feed!feedVars, Feed!cloud, IInv, TypeOK
<1>5. ASSUME NEW ok \in BOOLEAN,
             \/ refreshPricingCache(ok)
             \/ \E b \in SUBSET toDescribe : GetCVMInstances(b, ok)
             \/ AllDescribed(ok)
             \/ \E i \in toPrice : GetCVMInstancesPrice(i, ok)
      PROVE  \/ InRound /\ RoundFails /\ UNCHANGED cloud
             \/ InRound /\ InRound' /\ UNCHANGED <<cloud, warm, nodeIds, since, instances>>
  BY <1>5 DEF InRound, refreshPricingCache, GetCVMInstances, AllDescribed, GetCVMInstancesPrice
<1>6. QED
  BY <1>1, <1>2, <1>3, <1>4, <1>5 DEF Refresher

(* Outside a round nothing is remembered, inside it each change of the     *)
(* cloud is.                                                               *)
LEMMA FeedChanges ==
  ASSUME IInv, Changes, Feed!NodesChange \/ Feed!InstancesChange \/ Feed!TariffChanges
  PROVE  Feed!CloudChanges
<1>1. since' = IF InRound THEN Together(since, Facts') ELSE since
  BY DEF Changes, IInv, InScope, InRound
<1>2. Feed!Facts' = Facts' /\ Feed!Together(since, Facts') = Together(since, Facts')
  BY DEF Feed!Facts, Facts, Feed!Together, Together
<1>3. QED
  BY <1>1, <1>2 DEF Changes, round, InRound, Feed!CloudChanges, IInv, TypeOK

(* A change that adds no fact is one that PriceFeed remembers as well.     *)
LEMMA FeedNoNews ==
  ASSUME IInv, UNCHANGED <<configOf, tariff, pc, warm, nodeIds, instances>>,
         nodes' \in SUBSET Instances,
         since' = since
  PROVE  Feed!CloudChanges
<1>1. InRound => Feed!Together(since, Facts') = since
  <2>1. Facts' = Facts
    BY DEF Facts
  <2>2. InRound => since.configs \cup Facts.configs = since.configs
                   /\ since.prices \cup Facts.prices = since.prices
    BY DEF IInv, FactsKept
  <2>3. since = [configs |-> since.configs, prices |-> since.prices]
    BY DEF IInv, FactsKept
  <2>4. QED
    BY <2>1, <2>2, <2>3 DEF Feed!Together
<1>2. Feed!Facts' = Facts'
  BY DEF Feed!Facts, Facts
<1>3. QED
  BY <1>1, <1>2 DEF InRound, Feed!CloudChanges, Feed!NodesChange, IInv, TypeOK

LEMMA FeedEnvironment ==
  ASSUME IInv, Environment
  PROVE  [Feed!Next]_Feed!feedVars
<1>1. Partial(configOf, Instances, Offers) /\ nodes \subseteq Instances
      /\ tariff \in [Offers -> Prices]
  BY DEF IInv, TypeOK
<1>2. ASSUME NEW i \in Instances, NodeJoins(i)
      PROVE  Feed!CloudChanges
  BY <1>1, <1>2, FeedChanges DEF NodeJoins, Feed!NodesChange, Partial
<1>3. ASSUME NEW i \in Instances, InstanceTerminated(i)
      PROVE  Feed!CloudChanges
  <2>1. /\ DOMAIN configOf' = DOMAIN configOf \ {i}
        /\ configOf' \in [DOMAIN configOf' -> Offers]
    BY <1>1, <1>3 DEF InstanceTerminated, Without, Partial
  <2>2. Feed!InstancesChange
    BY <1>3, <2>1 DEF InstanceTerminated, Feed!InstancesChange, Feed!PartialFunctions
  <2>3. QED
    BY <1>3, <2>2, FeedChanges DEF InstanceTerminated
<1>4. ASSUME NEW i \in Instances, NEW o \in Offers, InstanceModified(i, o)
      PROVE  Feed!CloudChanges
  <2>1. configOf' \in [DOMAIN configOf -> Offers]
    BY <1>1, <1>4 DEF InstanceModified, Partial
  <2>2. Feed!InstancesChange
    BY <1>4, <2>1 DEF InstanceModified, Feed!InstancesChange, Feed!PartialFunctions
  <2>3. QED
    BY <1>4, <2>2, FeedChanges DEF InstanceModified
<1>5. ASSUME NEW o \in Offers, NEW p \in Prices, OfferRepriced(o, p)
      PROVE  Feed!CloudChanges
  BY <1>1, <1>5, FeedChanges DEF OfferRepriced, Feed!TariffChanges
<1>6. CASE OutageStarts
  BY <1>1, <1>6, FeedChanges DEF OutageStarts, Feed!NodesChange, Feed!Next
<1>7. ASSUME NEW i \in Instances, NodeLeaves(i)
      PROVE  Feed!CloudChanges
  BY <1>1, <1>7, FeedNoNews DEF NodeLeaves, round
<1>8. CASE OutageEnds
  BY <1>8 DEF OutageEnds, round, Feed!feedVars, Feed!cloud
<1>9. QED
  BY <1>2, <1>3, <1>4, <1>5, <1>6, <1>7, <1>8 DEF Environment, Feed!Next

(* Whichever calls a round is made of, whichever of them fail and whatever *)
(* changes between two of them, a reader of the cache sees rounds that     *)
(* come to nothing or write, at once, what has been true since they began, *)
(* and neither lose the entry of a node that is listed nor keep another:   *)
(* the safety half of ImplementsFeed.                                      *)
THEOREM RefresherImplementsFeed == Spec => Feed!Spec
<1>1. IInv /\ [Next]_vars => [Feed!Next]_Feed!feedVars
  <2> SUFFICES ASSUME IInv, [Next]_vars PROVE [Feed!Next]_Feed!feedVars
    OBVIOUS
  <2>1. CASE Refresher
    BY <2>1, FeedRefresher
  <2>2. CASE Environment
    BY <2>2, FeedEnvironment
  <2>3. CASE UNCHANGED vars
    BY <2>3 DEF vars, Feed!feedVars, Feed!cloud
  <2>4. QED
    BY <2>1, <2>2, <2>3 DEF Next
<1>2. QED
  BY FeedInit, GatheredStaysRecent, <1>1, PTL DEF Spec, Feed!Spec

----------------------------------------------------------------------------
(* Numbers in lowest terms.                                                *)

(* Induction up to a bound, over a set, since the provers cannot           *)
(* instantiate the library's theorems, which are about operators.          *)
LessThan == {ss \in Nat \X Nat : ss[1] < ss[2]}
LEMMA InductionUpTo ==
  ASSUME NEW N \in Nat, NEW T, 0 \in T, \A n \in 1..N : n - 1 \in T => n \in T
  PROVE  \A n \in 0..N : n \in T
<1> SUFFICES ASSUME (0..N) \ T # {} PROVE FALSE
  OBVIOUS
<1>1. IsWellFoundedOn(LessThan, Nat)
  BY NatLessThanWellFounded DEF OpToRel, LessThan
<1>2. (0..N) \ T \in SUBSET Nat
  OBVIOUS
<1>3. PICK n \in (0..N) \ T : \A m \in (0..N) \ T : ~(<<m, n>> \in LessThan)
  BY <1>1, <1>2, WFMin
<1>4. n \in 1..N /\ n - 1 \in (0..N) \ T
  BY <1>3
<1>5. <<n - 1, n>> \in LessThan
  BY <1>4 DEF LessThan
<1>6. QED
  BY <1>3, <1>4, <1>5

LEMMA Division ==
  ASSUME NEW n \in Nat, NEW d \in Nat \ {0}
  PROVE  /\ n \div d \in Nat
         /\ n = d * (n \div d) + (n % d)
         /\ n % d \in 0..d - 1
         /\ \A k \in Nat : n = d * k => n \div d = k
<1>1. n \div d \in Nat /\ n % d \in 0..d - 1
  OBVIOUS
<1>2. n = d * (n \div d) + (n % d)
  OBVIOUS
<1>3. ASSUME NEW k \in Nat, n = d * k
      PROVE  n \div d = k
  <2> DEFINE q == n \div d
             r == n % d
  <2>1. q \in Nat /\ r \in 0..d - 1 /\ d * k = d * q + r
    BY <1>1, <1>2, <1>3
  <2> HIDE DEF q, r
  <2>2. CASE k < q
    <3>1. q - k - 1 \in Nat /\ d * (q - k - 1) >= 0
      BY <2>1, <2>2
    <3>2. d * (q - k - 1) = d * q - d * k - d
      BY <2>1
    <3>3. QED
      BY <2>1, <3>1, <3>2
  <2>3. CASE q < k
    <3>1. k - q - 1 \in Nat /\ d * (k - q - 1) >= 0
      BY <2>1, <2>3
    <3>2. d * (k - q - 1) = d * k - d * q - d
      BY <2>1
    <3>3. QED
      BY <2>1, <3>1, <3>2
  <2>4. q = k
    BY <2>1, <2>2, <2>3
  <2>5. QED
    BY <2>4 DEF q
<1>4. QED
  BY <1>1, <1>2, <1>3

(* Euclid's algorithm, as gcd spells it out, is defined everywhere. *)
EuclidFrom(f, p) == IF p[2] = 0 THEN p[1] ELSE f[<<p[2], p[1] % p[2]>>]
LEMMA EuclidDefined ==
  ASSUME NEW x \in Numbers, NEW M, M = x[1] + x[2]
  PROVE  \E f : f = [p \in (0..M) \X (0..M) |-> EuclidFrom(f, p)] /\ gcd(x) = f[x]
<1> DEFINE S(n) == (0..M) \X (0..n)
           T == {n \in 0..M : \E f : f = [p \in S(n) |-> EuclidFrom(f, p)]}
<1>m. M \in Nat
  BY DEF Numbers
<1>1. 0 \in T
  <2> DEFINE f == [p \in S(0) |-> p[1]]
  <2>1. f = [p \in S(0) |-> EuclidFrom(f, p)]
    BY DEF EuclidFrom
  <2> HIDE DEF f
  <2>2. QED
    BY <1>m, <2>1
<1>2. ASSUME NEW n \in 1..M, n - 1 \in T
      PROVE  n \in T
  <2>1. PICK f : f = [p \in S(n - 1) |-> EuclidFrom(f, p)]
    BY <1>2
  <2> DEFINE g == [p \in S(n) |-> EuclidFrom(f, p)]
  <2>2. ASSUME NEW p \in S(n - 1) PROVE g[p] = f[p]
    <3>1. p \in S(n)
      BY <1>m
    <3>2. QED
      BY <2>1, <3>1
  <2>3. ASSUME NEW p \in S(n) PROVE EuclidFrom(f, p) = EuclidFrom(g, p)
    <3>1. CASE p[2] = 0
      BY <3>1 DEF EuclidFrom
    <3>2. CASE p[2] # 0
      <4>1. p[1] \in Nat /\ p[2] \in 1..n /\ n \in 1..M
        BY <3>2, <1>m
      <4>2. p[1] % p[2] \in 0..p[2] - 1
        BY <4>1
      <4>3. p[1] % p[2] \in 0..n - 1 /\ p[2] \in 0..M
        BY <4>1, <4>2, <1>m
      <4>4. <<p[2], p[1] % p[2]>> \in S(n - 1)
        BY <4>3
      <4> HIDE DEF g
      <4>5. f[<<p[2], p[1] % p[2]>>] = g[<<p[2], p[1] % p[2]>>]
        BY <2>2, <4>4
      <4>6. QED
        BY <3>2, <4>5 DEF EuclidFrom
    <3>3. QED
      BY <3>1, <3>2
  <2>4. g = [p \in S(n) |-> EuclidFrom(g, p)]
    BY <2>3
  <2> HIDE DEF g
  <2>5. QED
    BY <2>4
<1>3. M \in T
  <2> HIDE DEF T
  <2>1. \A n \in 0..M : n \in T
    BY <1>m, <1>1, <1>2, InductionUpTo
  <2>2. QED
    BY <1>m, <2>1
<1>4. \E f : f = [p \in S(M) |-> EuclidFrom(f, p)]
  BY <1>3
<1> DEFINE euclid == CHOOSE f : f = [p \in S(M) |-> EuclidFrom(f, p)]
<1>5. euclid = [p \in S(M) |-> EuclidFrom(euclid, p)]
  BY <1>4
<1>6. gcd(x) = euclid[x]
  BY DEF gcd, EuclidFrom
<1>7. QED
  BY <1>5, <1>6

(* It finds a number that divides both. *)
LEMMA GcdDivides ==
  ASSUME NEW x \in Numbers, ~IsNaN(x)
  PROVE  /\ gcd(x) \in Nat \ {0}
         /\ \E k, l \in Nat : x[1] = gcd(x) * k /\ x[2] = gcd(x) * l
<1> DEFINE M == x[1] + x[2]
           S(n) == (0..M) \X (0..n)
<1>m. M \in Nat /\ x[1] \in 0..M /\ x[2] \in 0..M /\ x = <<x[1], x[2]>>
  BY DEF Numbers
<1>1. PICK f : f = [p \in S(M) |-> EuclidFrom(f, p)] /\ gcd(x) = f[x]
  BY EuclidDefined
<1> DEFINE Divides(p) == /\ f[p] \in Nat
                         /\ f[p] = 0 => p[1] = 0 /\ p[2] = 0
                         /\ \E k, l \in Nat : p[1] = f[p] * k /\ p[2] = f[p] * l
           T == {n \in 0..M : \A p \in S(n) : Divides(p)}
<1> HIDE DEF M
<1>2. ASSUME NEW p \in S(M) PROVE f[p] = EuclidFrom(f, p)
  BY <1>1
<1>3. ASSUME NEW p \in S(M), p[2] = 0 PROVE Divides(p)
  <2>1. f[p] = p[1]
    BY <1>2, <1>3 DEF EuclidFrom
  <2>4. p[1] \in Nat
    BY <1>m
  <2>2. p[1] = f[p] * 1 /\ p[2] = f[p] * 0
    BY <1>3, <2>1, <2>4
  <2>3. QED
    BY <1>3, <2>1, <2>2, <2>4
<1>4. 0 \in T
  <2>1. ASSUME NEW p \in S(0) PROVE Divides(p)
    <3>1. p \in S(M) /\ p[2] = 0
      BY <1>m
    <3> HIDE DEF Divides
    <3>2. QED
      BY <1>3, <3>1
  <2> HIDE DEF Divides
  <2>2. QED
    BY <1>m, <2>1
<1>5. ASSUME NEW n \in 1..M, n - 1 \in T
      PROVE  n \in T
  <2>1. ASSUME NEW p \in S(n), p[2] # 0
        PROVE  Divides(p)
    <3> DEFINE a == p[1]
               b == p[2]
               c == a % b
               q == <<b, c>>
    <3>1. a \in Nat /\ a \in 0..M /\ b \in 1..n /\ n \in 1..M /\ p \in S(M)
      BY <2>1, <1>m
    <3>2. b \in Nat \ {0} /\ b \in 0..M
      BY <3>1, <1>m
    <3>3. a \div b \in Nat /\ a = b * (a \div b) + c /\ c \in 0..b - 1
      BY <3>1, <3>2, Division
    <3>4. c \in 0..n - 1
      BY <3>1, <3>3
    <3>5. q \in S(n - 1)
      BY <3>2, <3>4
    <3>6. Divides(q)
      BY <1>5, <3>5
    <3>7. f[p] = f[q]
      BY <1>2, <2>1, <3>1 DEF EuclidFrom
    <3> DEFINE d == f[q]
    <3>8. PICK k, l \in Nat : b = d * k /\ c = d * l
      BY <3>6
    <3>9. d \in Nat /\ d # 0
      BY <3>2, <3>6
    <3> DEFINE e == a \div b
    <3> HIDE DEF d, a, b, c, e
    <3>10. a = (d * k) * e + d * l /\ e \in Nat
      BY <3>3, <3>8 DEF e
    <3>11. (d * k) * e + d * l = d * (k * e + l) /\ k * e + l \in Nat
      BY <3>8, <3>9, <3>10
    <3>12. a = d * (k * e + l) /\ b = d * k
      BY <3>8, <3>10, <3>11
    <3>13. QED
      BY <3>7, <3>8, <3>9, <3>11, <3>12 DEF a, b, d
  <2>2. ASSUME NEW p \in S(n) PROVE Divides(p)
    <3>1. p \in S(M)
      BY <1>m
    <3> HIDE DEF Divides
    <3>2. QED
      BY <1>3, <2>1, <3>1
  <2> HIDE DEF Divides
  <2>3. QED
    BY <2>2
<1>6. M \in T
  <2> HIDE DEF T
  <2>1. \A n \in 0..M : n \in T
    BY <1>m, <1>4, <1>5, InductionUpTo
  <2>2. QED
    BY <1>m, <2>1
<1>7. x \in S(M)
  BY <1>m
<1>8. Divides(x)
  <2> HIDE DEF Divides
  <2>1. QED
    BY <1>6, <1>7
<1>9. QED
  BY <1>1, <1>8 DEF IsNaN

(* Lowest terms are the same number. *)
LEMMA LowestIsSame ==
  ASSUME NEW x \in Numbers
  PROVE  /\ Lowest(x) \in Numbers
         /\ ~IsNaN(x) => \E d \in Nat \ {0} : /\ x[1] = d * Lowest(x)[1]
                                              /\ x[2] = d * Lowest(x)[2]
<1>1. CASE IsNaN(x)
  BY <1>1 DEF Lowest, NaN, Numbers
<1>2. CASE ~IsNaN(x)
  <2>1. gcd(x) \in Nat \ {0}
    BY <1>2, GcdDivides
  <2>2. PICK k, l \in Nat : x[1] = gcd(x) * k /\ x[2] = gcd(x) * l
    BY <1>2, GcdDivides
  <2>3. x[1] \in Nat /\ x[2] \in Nat
    BY DEF Numbers
  <2>4. x[1] \div gcd(x) = k /\ x[2] \div gcd(x) = l
    BY <2>1, <2>2, <2>3, Division
  <2>5. Lowest(x) = <<k, l>>
    BY <1>2, <2>4 DEF Lowest
  <2> DEFINE y == Lowest(x)
             d == gcd(x)
  <2>6. y \in Numbers /\ y[1] = k /\ y[2] = l
    BY <2>5 DEF Numbers
  <2> HIDE DEF y, d
  <2>7. d \in Nat \ {0} /\ x[1] = d * y[1] /\ x[2] = d * y[2]
    BY <2>1, <2>2, <2>6 DEF d
  <2>8. y \in Numbers /\ \E e \in Nat \ {0} : x[1] = e * y[1] /\ x[2] = e * y[2]
    BY <2>6, <2>7
  <2>9. QED
    BY <2>8 DEF y
<1>3. QED
  BY <1>1, <1>2

----------------------------------------------------------------------------
(* What may be infinite or no number.                                      *)

LEMMA LowestType ==
  ASSUME NEW x \in Numbers
  PROVE  /\ Lowest(x) \in Numbers
         /\ IsFinite(Lowest(x)) <=> IsFinite(x)
         /\ IsFinite(x) => Lowest(x) \in FiniteNumbers /\ Lowest(x)[1] * x[2] = x[1] * Lowest(x)[2]
<1> DEFINE y == Lowest(x)
<1>1. y \in Numbers /\ y[1] \in Nat /\ y[2] \in Nat /\ x[1] \in Nat /\ x[2] \in Nat
  BY LowestIsSame DEF Numbers
<1>2. CASE IsNaN(x)
  BY <1>1, <1>2 DEF Lowest, NaN, IsNaN, IsFinite
<1>3. CASE ~IsNaN(x)
  <2>1. PICK d \in Nat \ {0} : x[1] = d * y[1] /\ x[2] = d * y[2]
    BY <1>3, LowestIsSame
  <2> HIDE DEF y
  <2>2. y[2] > 0 <=> x[2] > 0
    BY <1>1, <2>1
  <2>3. y[1] * (d * y[2]) = (d * y[1]) * y[2]
    BY <1>1
  <2>4. y[1] * x[2] = x[1] * y[2]
    BY <2>1, <2>3
  <2>5. y[2] > 0 => y \in FiniteNumbers
    BY <1>1 DEF Numbers, FiniteNumbers
  <2>6. /\ y \in Numbers /\ (IsFinite(y) <=> IsFinite(x))
        /\ IsFinite(x) => y \in FiniteNumbers /\ y[1] * x[2] = x[1] * y[2]
    BY <1>1, <2>2, <2>4, <2>5 DEF IsFinite
  <2>7. QED
    BY <2>6 DEF y
<1>4. QED
  BY <1>2, <1>3

LEMMA FiniteType ==
  ASSUME NEW x
  PROVE  x \in FiniteNumbers <=> x \in Numbers /\ IsFinite(x)
BY DEF FiniteNumbers, Numbers, IsFinite

LEMMA Products ==
  ASSUME NEW a \in Nat, NEW b \in Nat
  PROVE  a * b \in Nat /\ (a * b > 0 <=> a > 0 /\ b > 0)
<1>1. a * b \in Nat
  OBVIOUS
<1>2. ASSUME a > 0, b > 0 PROVE a * b > 0
  BY <1>2
<1>3. ASSUME a = 0 \/ b = 0 PROVE a * b = 0
  BY <1>3
<1>4. QED
  BY <1>1, <1>2, <1>3

LEMMA TimesType ==
  ASSUME NEW x \in Numbers, NEW y \in Numbers
  PROVE  /\ Times(x, y) \in Numbers
         /\ IsFinite(Times(x, y)) <=> IsFinite(x) /\ IsFinite(y)
<1>1. x[1] \in Nat /\ x[2] \in Nat /\ y[1] \in Nat /\ y[2] \in Nat
  BY DEF Numbers
<1> DEFINE z == <<x[1] * y[1], x[2] * y[2]>>
<1>2. z \in Numbers
  BY <1>1 DEF Numbers
<1>3. IsFinite(z) <=> IsFinite(x) /\ IsFinite(y)
  BY <1>1, Products DEF IsFinite
<1>4. QED
  BY <1>2, <1>3, LowestType DEF Times

LEMMA OverType ==
  ASSUME NEW x \in Numbers, NEW y \in Numbers
  PROVE  /\ Over(x, y) \in Numbers
         /\ IsFinite(Over(x, y)) <=> IsFinite(x) /\ y[1] > 0
<1>1. x[1] \in Nat /\ x[2] \in Nat /\ y[1] \in Nat /\ y[2] \in Nat
  BY DEF Numbers
<1> DEFINE z == <<x[1] * y[2], x[2] * y[1]>>
<1>2. z \in Numbers
  BY <1>1 DEF Numbers
<1>3. IsFinite(z) <=> IsFinite(x) /\ y[1] > 0
  BY <1>1, Products DEF IsFinite
<1>4. QED
  BY <1>2, <1>3, LowestType DEF Over

LEMMA PlusType ==
  ASSUME NEW x \in Numbers, NEW y \in Numbers
  PROVE  /\ Plus(x, y) \in Numbers
         /\ IsFinite(Plus(x, y)) <=> IsFinite(x) /\ IsFinite(y)
<1>1. x[1] \in Nat /\ x[2] \in Nat /\ y[1] \in Nat /\ y[2] \in Nat
  BY DEF Numbers
<1> DEFINE z == <<x[1] * y[2] + y[1] * x[2], x[2] * y[2]>>
<1>2. z \in Numbers
  BY <1>1 DEF Numbers
<1>3. IsFinite(z) <=> IsFinite(x) /\ IsFinite(y)
  BY <1>1, Products DEF IsFinite
<1>4. CASE IsInf(x) /\ IsInf(y)
  BY <1>4 DEF Plus, Infinity, Numbers, IsFinite, IsInf
<1>5. CASE ~(IsInf(x) /\ IsInf(y))
  <2>1. Plus(x, y) = Lowest(z)
    BY <1>5 DEF Plus
  <2> HIDE DEF z
  <2>2. QED
    BY <1>2, <1>3, <2>1, LowestType
<1>6. QED
  BY <1>4, <1>5

LEMMA OrZeroType ==
  ASSUME NEW x \in Numbers
  PROVE  /\ OrZero(x) \in Numbers
         /\ OrZero(x) = x \/ (OrZero(x) = Zero /\ ~IsFinite(x))
         /\ Zero \in FiniteNumbers /\ IsFinite(Zero)
<1>1. Zero \in FiniteNumbers /\ Zero \in Numbers /\ IsFinite(Zero)
  BY DEF Zero, Number, FiniteNumbers, Numbers, IsFinite
<1>2. QED
  BY <1>1 DEF OrZero, IsNaN, IsFinite

LEMMA DecimalsType == Decimals \in Nat \ {0}
BY NodeCostAssumption

(* What "%f" leaves of a number is less than half a unit away from it. *)
LEMMA RoundedNumber ==
  ASSUME NEW x \in FiniteNumbers
  PROVE  \E f \in Nat : /\ F(x) = Lowest(<<f, Decimals>>)
                        /\ 2 * (f * x[2]) <= 2 * (x[1] * Decimals) + x[2]
                        /\ 2 * (x[1] * Decimals) <= 2 * (f * x[2]) + x[2]
<1> DEFINE n == 2 * x[1] * Decimals + x[2]
           d == 2 * x[2]
           f == n \div d
<1>1. x[1] \in Nat /\ x[2] \in Nat \ {0} /\ IsFinite(x)
  BY DEF FiniteNumbers, IsFinite
<1>2. n \in Nat /\ d \in Nat \ {0}
  BY <1>1, DecimalsType
<1> HIDE DEF n, d
<1>3. f \in Nat /\ n = d * f + (n % d) /\ n % d \in 0..d - 1
  BY <1>2, Division
<1> HIDE DEF f
<1>4. F(x) = Lowest(<<f, Decimals>>)
  BY <1>1 DEF F, Rounded, f, n, d
<1>5. d * f <= n /\ n <= d * f + d
  BY <1>2, <1>3
<1>6. d * f = 2 * (f * x[2])
  BY <1>1, <1>3 DEF d
<1>7. n = 2 * (x[1] * Decimals) + x[2]
  BY <1>1, DecimalsType DEF n
<1>8. QED
  <2> DEFINE g == f * x[2]
             h == x[1] * Decimals
  <2>1. g \in Nat /\ h \in Nat
    BY <1>1, <1>3, DecimalsType
  <2> HIDE DEF g, h
  <2>2. 2 * g <= 2 * h + x[2] /\ 2 * h + x[2] <= 2 * g + 2 * x[2]
    BY <1>5, <1>6, <1>7 DEF g, h, d
  <2>3. 2 * g <= 2 * h + x[2] /\ 2 * h <= 2 * g + x[2]
    BY <1>1, <2>1, <2>2
  <2>4. QED
    BY <1>3, <1>4, <2>3 DEF g, h

LEMMA FType ==
  ASSUME NEW x \in Numbers
  PROVE  F(x) \in Numbers /\ (IsFinite(F(x)) <=> IsFinite(x))
<1>1. CASE ~IsFinite(x)
  BY <1>1 DEF F, Rounded
<1>2. CASE IsFinite(x)
  <2>1. PICK f \in Nat : F(x) = Lowest(<<f, Decimals>>)
    BY <1>2, FiniteType, RoundedNumber
  <2>2. <<f, Decimals>> \in Numbers /\ IsFinite(<<f, Decimals>>)
    BY DecimalsType DEF Numbers, IsFinite
  <2>3. QED
    BY <1>2, <2>1, <2>2, LowestType
<1>3. QED
  BY <1>1, <1>2

----------------------------------------------------------------------------
(* Finite numbers over a common denominator.                               *)

Is(x, n, q) == x \in FiniteNumbers /\ x[1] * q = n * x[2]

LEMMA Cancels ==
  ASSUME NEW a \in Int, NEW b \in Int, NEW c \in Nat \ {0}
  PROVE  /\ a * c = b * c => a = b
         /\ a * c <= b * c => a <= b
         /\ a <= b => a * c <= b * c
<1>1. ASSUME a + 1 <= b PROVE a * c + c <= b * c
  <2>1. b - a - 1 \in Nat /\ (b - a - 1) * c >= 0
    BY <1>1
  <2>2. (b - a - 1) * c = b * c - a * c - c
    OBVIOUS
  <2>3. QED
    BY <2>1, <2>2
<1>2. ASSUME b + 1 <= a PROVE b * c + c <= a * c
  <2>1. a - b - 1 \in Nat /\ (a - b - 1) * c >= 0
    BY <1>2
  <2>2. (a - b - 1) * c = a * c - b * c - c
    OBVIOUS
  <2>3. QED
    BY <2>1, <2>2
<1>3. a + 1 <= b \/ b + 1 <= a \/ a = b
  OBVIOUS
<1>4. a * c \in Int /\ b * c \in Int
  OBVIOUS
<1>5. QED
  BY <1>1, <1>2, <1>3, <1>4

LEMMA Terms ==
  ASSUME NEW x \in FiniteNumbers
  PROVE  x[1] \in Nat /\ x[2] \in Nat \ {0} /\ x \in Numbers /\ IsFinite(x)
BY DEF FiniteNumbers, Numbers, IsFinite

LEMMA IsUnique ==
  ASSUME NEW x, NEW a \in Int, NEW b \in Int, NEW q \in Nat \ {0}, Is(x, a, q), Is(x, b, q)
  PROVE  a = b
<1>1. x[2] \in Nat \ {0} /\ a * x[2] = b * x[2]
  BY Terms DEF Is
<1>2. QED
  BY <1>1, Cancels

LEMMA IsScaled ==
  ASSUME NEW x, NEW a \in Int, NEW q \in Nat \ {0}, NEW s \in Nat \ {0}
  PROVE  Is(x, a, q) <=> Is(x, a * s, q * s)
<1> SUFFICES ASSUME x \in FiniteNumbers
             PROVE  x[1] * q = a * x[2] <=> x[1] * (q * s) = (a * s) * x[2]
  BY DEF Is
<1>1. x[1] \in Nat /\ x[2] \in Nat \ {0}
  BY Terms
<1> DEFINE u == x[1] * q
           v == a * x[2]
<1>2. u \in Int /\ v \in Int
  BY <1>1
<1>3. x[1] * (q * s) = u * s /\ (a * s) * x[2] = v * s
  BY <1>1
<1> HIDE DEF u, v
<1>4. u * s = v * s <=> u = v
  BY <1>2, Cancels
<1>5. QED
  BY <1>3, <1>4 DEF u, v

LEMMA LowestIs ==
  ASSUME NEW n \in Nat, NEW d \in Nat \ {0}
  PROVE  Is(Lowest(<<n, d>>), n, d)
<1>1. <<n, d>> \in Numbers /\ IsFinite(<<n, d>>)
  BY DEF Numbers, IsFinite
<1>2. QED
  BY <1>1, LowestType DEF Is

LEMMA TimesIs ==
  ASSUME NEW x, NEW y, NEW a \in Int, NEW b \in Int,
         NEW p \in Nat \ {0}, NEW q \in Nat \ {0}, Is(x, a, p), Is(y, b, q)
  PROVE  Is(Times(x, y), a * b, p * q)
<1>1. /\ x[1] \in Nat /\ x[2] \in Nat \ {0} /\ x[1] * p = a * x[2]
      /\ y[1] \in Nat /\ y[2] \in Nat \ {0} /\ y[1] * q = b * y[2]
  BY Terms DEF Is
<1> DEFINE n == x[1] * y[1]
           d == x[2] * y[2]
           z == Times(x, y)
<1>2. n \in Nat /\ d \in Nat \ {0}
  BY <1>1, Products
<1>3. n * (p * q) = (x[1] * p) * (y[1] * q)
  BY <1>1
<1>4. (a * x[2]) * (b * y[2]) = (a * b) * d
  BY <1>1
<1>5. n * (p * q) = (a * b) * d
  BY <1>1, <1>3, <1>4
<1>6. z = Lowest(<<n, d>>)
  BY DEF Times
<1> HIDE DEF n, d, z
<1>7. z \in FiniteNumbers /\ z[1] * d = n * z[2]
  BY <1>2, <1>6, LowestIs DEF Is
<1>8. z[1] \in Nat /\ z[2] \in Nat \ {0}
  BY <1>7, Terms
<1>9. (z[1] * (p * q)) * d = (z[1] * d) * (p * q)
  BY <1>2, <1>8
<1>10. (n * z[2]) * (p * q) = (n * (p * q)) * z[2]
  BY <1>2, <1>8
<1>11. ((a * b) * d) * z[2] = ((a * b) * z[2]) * d
  BY <1>2, <1>8
<1>12. (z[1] * (p * q)) * d = ((a * b) * z[2]) * d
  BY <1>5, <1>7, <1>9, <1>10, <1>11
<1>13. z[1] * (p * q) \in Int /\ (a * b) * z[2] \in Int
  BY <1>8
<1>14. QED
  BY <1>2, <1>7, <1>12, <1>13, Cancels DEF Is, z

LEMMA PlusIs ==
  ASSUME NEW x, NEW y, NEW a \in Int, NEW b \in Int, NEW q \in Nat \ {0},
         Is(x, a, q), Is(y, b, q)
  PROVE  Is(Plus(x, y), a + b, q)
<1>1. /\ x[1] \in Nat /\ x[2] \in Nat \ {0} /\ x[1] * q = a * x[2]
      /\ y[1] \in Nat /\ y[2] \in Nat \ {0} /\ y[1] * q = b * y[2]
  BY Terms DEF Is
<1> DEFINE n == x[1] * y[2] + y[1] * x[2]
           d == x[2] * y[2]
           z == Plus(x, y)
<1>2. n \in Nat /\ d \in Nat \ {0}
  BY <1>1, Products
<1>3. n * q = (x[1] * q) * y[2] + (y[1] * q) * x[2]
  BY <1>1
<1>4. (a * x[2]) * y[2] + (b * y[2]) * x[2] = (a + b) * d
  <2>1. (a * x[2]) * y[2] = a * d /\ (b * y[2]) * x[2] = b * d
    BY <1>1
  <2>2. a * d + b * d = (a + b) * d
    BY <1>2
  <2>3. QED
    BY <2>1, <2>2
<1>5. n * q = (a + b) * d
  BY <1>1, <1>3, <1>4
<1>6. z = Lowest(<<n, d>>)
  BY <1>1 DEF Plus, IsInf
<1> HIDE DEF n, d, z
<1>7. z \in FiniteNumbers /\ z[1] * d = n * z[2]
  BY <1>2, <1>6, LowestIs DEF Is
<1>8. z[1] \in Nat /\ z[2] \in Nat \ {0}
  BY <1>7, Terms
<1>9. (z[1] * q) * d = (z[1] * d) * q
  BY <1>2, <1>8
<1>10. (n * z[2]) * q = (n * q) * z[2]
  BY <1>2, <1>8
<1>11. ((a + b) * d) * z[2] = ((a + b) * z[2]) * d
  BY <1>2, <1>8
<1>12. (z[1] * q) * d = ((a + b) * z[2]) * d
  BY <1>5, <1>7, <1>9, <1>10, <1>11
<1>13. z[1] * q \in Int /\ (a + b) * z[2] \in Int
  BY <1>8
<1>14. QED
  BY <1>2, <1>7, <1>12, <1>13, Cancels DEF Is, z

(* A quotient, times what it was divided by, is what was divided. *)
LEMMA OverTimes ==
  ASSUME NEW x \in FiniteNumbers, NEW y \in FiniteNumbers, y[1] > 0,
         NEW a \in Int, NEW b \in Int, NEW c \in Int, NEW q \in Nat \ {0},
         Is(x, a, q), Is(y, b, q), Is(Over(x, y), c, q)
  PROVE  c * b = a * q
<1>1. /\ x[1] \in Nat /\ x[2] \in Nat \ {0} /\ x[1] * q = a * x[2]
      /\ y[1] \in Nat \ {0} /\ y[2] \in Nat \ {0} /\ y[1] * q = b * y[2]
  BY Terms DEF Is
<1> DEFINE n == x[1] * y[2]
           d == x[2] * y[1]
           z == Over(x, y)
<1>2. n \in Nat /\ d \in Nat \ {0}
  BY <1>1, Products
<1>3. z = Lowest(<<n, d>>)
  BY DEF Over
<1>4. z[1] \in Nat /\ z[2] \in Nat \ {0} /\ z[1] * q = c * z[2]
  BY Terms DEF Is
<1>5. z[1] * d = n * z[2]
  <2> HIDE DEF n, d, z
  <2>1. QED
    BY <1>2, <1>3, LowestIs DEF Is
<1>6. Is(z, n, d)
  <2> HIDE DEF n, d, z
  <2>1. QED
    BY <1>2, <1>3, LowestIs
<1> HIDE DEF z
<1>7. ((c * b) * z[2]) * (x[2] * y[2]) = ((c * z[2]) * (b * y[2])) * x[2]
  BY <1>1, <1>4
<1>8. ((z[1] * q) * (y[1] * q)) * x[2] = ((z[1] * d) * q) * q
  BY <1>1, <1>4
<1>9. ((n * z[2]) * q) * q = (((x[1] * q) * y[2]) * z[2]) * q
  BY <1>1, <1>4
<1>10. (((a * x[2]) * y[2]) * z[2]) * q = ((a * q) * z[2]) * (x[2] * y[2])
  BY <1>1, <1>4
<1>11. ((c * b) * z[2]) * (x[2] * y[2]) = ((a * q) * z[2]) * (x[2] * y[2])
  BY <1>1, <1>4, <1>5, <1>7, <1>8, <1>9, <1>10
<1>12. x[2] * y[2] \in Nat \ {0} /\ (c * b) * z[2] \in Int /\ (a * q) * z[2] \in Int
  BY <1>1, <1>4, Products
<1>13. (c * b) * z[2] = (a * q) * z[2]
  BY <1>11, <1>12, Cancels
<1>14. QED
  BY <1>4, <1>13, Cancels

LEMMA WithinIs ==
  ASSUME NEW x, NEW y, NEW e, NEW a \in Int, NEW b \in Int, NEW c \in Int,
         NEW q \in Nat \ {0}, Is(x, a, q), Is(y, b, q), Is(e, c, q),
         a - b <= c, b - a <= c
  PROVE  Within(x, y, e)
<1>1. /\ x[1] \in Nat /\ x[2] \in Nat \ {0} /\ x[1] * q = a * x[2]
      /\ y[1] \in Nat /\ y[2] \in Nat \ {0} /\ y[1] * q = b * y[2]
      /\ e[1] \in Nat /\ e[2] \in Nat \ {0} /\ e[1] * q = c * e[2]
      /\ IsFinite(x) /\ IsFinite(y)
  BY Terms DEF Is
<1> DEFINE d == x[1] * y[2] - y[1] * x[2]
           m == (x[2] * y[2]) * e[2]
           E == e[1] * x[2] * y[2]
<1>2. d \in Int /\ E \in Int /\ m \in Nat /\ d * e[2] \in Int
  BY <1>1
<1>3. (d * e[2]) * q = (a - b) * m
  <2>1. (d * e[2]) * q = ((x[1] * q) * y[2]) * e[2] - ((y[1] * q) * x[2]) * e[2]
    BY <1>1
  <2>2. ((a * x[2]) * y[2]) * e[2] - ((b * y[2]) * x[2]) * e[2] = (a - b) * m
    BY <1>1
  <2>3. QED
    BY <1>1, <2>1, <2>2
<1>4. E * q = c * m
  <2>1. E * q = ((e[1] * q) * x[2]) * y[2]
    BY <1>1
  <2>2. ((c * e[2]) * x[2]) * y[2] = c * m
    BY <1>1
  <2>3. QED
    BY <1>1, <2>1, <2>2
<1>5. (-(d * e[2])) * q = (b - a) * m
  <2>1. (-(d * e[2])) * q = -((d * e[2]) * q) /\ (b - a) * m = -((a - b) * m)
    BY <1>2
  <2>2. QED
    BY <1>3, <2>1
<1> HIDE DEF E
<1>6. m \in Nat \ {0}
  BY <1>1, Products
<1>7. -(d * e[2]) = (-d) * e[2]
  BY <1>1, <1>2
<1> HIDE DEF d, m
<1>8. (a - b) * m <= c * m /\ (b - a) * m <= c * m
  BY <1>6, Cancels
<1>9. d * e[2] <= E /\ -(d * e[2]) <= E
  <2>1. -(d * e[2]) \in Int
    BY <1>2
  <2>2. (d * e[2]) * q <= E * q /\ (-(d * e[2])) * q <= E * q
    BY <1>3, <1>4, <1>5, <1>8
  <2>3. QED
    BY <1>2, <2>1, <2>2, Cancels
<1>10. (IF d < 0 THEN -d ELSE d) * e[2] <= E
  BY <1>7, <1>9
<1>11. QED
  BY <1>1, <1>10 DEF Within, E, d

(* Any few finite numbers have a common denominator. *)
LEMMA CommonDenominator ==
  ASSUME NEW n \in Nat, NEW x, \A i \in 1..n : x[i] \in FiniteNumbers
  PROVE  \E q \in Nat \ {0} : \A i \in 1..n : \E a \in Nat : Is(x[i], a, q)
<1> DEFINE Has(m) == \E q \in Nat \ {0} : \A i \in 1..m : \E a \in Nat : Is(x[i], a, q)
           T == {m \in 0..n : Has(m)}
<1>1. Has(0)
  <2>1. \A i \in 1..0 : FALSE
    OBVIOUS
  <2>2. 1 \in Nat \ {0}
    OBVIOUS
  <2>3. QED
    BY <2>1, <2>2
<1>2. ASSUME NEW m \in 1..n, Has(m - 1) PROVE Has(m)
  <2>1. PICK q \in Nat \ {0} : \A i \in 1..m - 1 : \E a \in Nat : Is(x[i], a, q)
    BY <1>2
  <2>2. x[m] \in FiniteNumbers /\ x[m][1] \in Nat /\ x[m][2] \in Nat \ {0}
    BY Terms
  <2> DEFINE s == x[m][2]
             Q == q * s
  <2>3. Q \in Nat \ {0}
    BY <2>2, Products
  <2>4. Is(x[m], x[m][1] * q, Q) /\ x[m][1] * q \in Nat
    <3>1. x[m][1] * Q = (x[m][1] * q) * x[m][2]
      BY <2>2
    <3>2. QED
      BY <2>2, <3>1 DEF Is
  <2>5. ASSUME NEW i \in 1..m - 1 PROVE \E a \in Nat : Is(x[i], a, Q)
    <3>1. PICK a \in Nat : Is(x[i], a, q)
      BY <2>1
    <3> HIDE DEF s
    <3>2. s \in Nat \ {0} /\ a * s \in Nat
      BY <2>2 DEF s
    <3>3. Is(x[i], a * s, Q)
      BY <3>1, <3>2, IsScaled
    <3>4. QED
      BY <3>2, <3>3
  <2> HIDE DEF Q, s
  <2>6. ASSUME NEW i \in 1..m PROVE \E a \in Nat : Is(x[i], a, Q)
    <3>1. CASE i = m
      BY <2>4, <3>1
    <3>2. CASE i # m
      BY <2>5, <3>2
    <3>3. QED
      BY <3>1, <3>2
  <2>7. QED
    BY <2>3, <2>6
<1>3. 0 \in T /\ \A m \in 1..n : m - 1 \in T => m \in T
  <2> HIDE DEF Has
  <2>1. QED
    BY <1>1, <1>2
<1>4. n \in T
  <2> HIDE DEF T
  <2>1. \A m \in 0..n : m \in T
    BY <1>3, InductionUpTo
  <2>2. QED
    BY <2>1
<1>5. QED
  BY <1>4

(* What the rules above say of numbers over the same denominator. *)
LEMMA TimesOver ==
  ASSUME NEW x, NEW y, NEW a \in Int, NEW b \in Int, NEW c \in Int,
         NEW q \in Nat \ {0}, Is(x, a, q), Is(y, b, q), Is(Times(x, y), c, q)
  PROVE  c * q = a * b
<1>1. Is(Times(x, y), a * b, q * q) /\ Is(Times(x, y), c * q, q * q)
  BY TimesIs, IsScaled
<1>2. q * q \in Nat \ {0} /\ a * b \in Int /\ c * q \in Int
  BY Products
<1>3. QED
  BY <1>1, <1>2, IsUnique

LEMMA PlusOver ==
  ASSUME NEW x, NEW y, NEW a \in Int, NEW b \in Int, NEW c \in Int,
         NEW q \in Nat \ {0}, Is(x, a, q), Is(y, b, q), Is(Plus(x, y), c, q)
  PROVE  c = a + b
<1>1. Is(Plus(x, y), a + b, q) /\ a + b \in Int
  BY PlusIs
<1>2. QED
  BY <1>1, IsUnique

(* The nearest multiple of a unit, over units, and how near it is. *)
Near(f, a, q) == /\ 2 * (f * q) <= 2 * (a * Decimals) + q
                 /\ 2 * (a * Decimals) <= 2 * (f * q) + q
LEMMA RoundedOver ==
  ASSUME NEW x, NEW a \in Int, NEW q \in Nat \ {0}, Is(x, a, q)
  PROVE  \E f \in Nat : Is(F(x), f, Decimals) /\ Near(f, a, q)
<1>1. x \in FiniteNumbers /\ x[1] \in Nat /\ x[2] \in Nat \ {0} /\ x[1] * q = a * x[2]
  BY Terms DEF Is
<1>2. PICK f \in Nat : /\ F(x) = Lowest(<<f, Decimals>>)
                       /\ 2 * (f * x[2]) <= 2 * (x[1] * Decimals) + x[2]
                       /\ 2 * (x[1] * Decimals) <= 2 * (f * x[2]) + x[2]
  BY <1>1, RoundedNumber
<1>3. Is(F(x), f, Decimals)
  BY <1>2, LowestIs, DecimalsType
<1> DEFINE D == Decimals
           d == x[2]
<1>4. D \in Nat \ {0} /\ d \in Nat \ {0}
  BY <1>1, DecimalsType
<1>5. /\ (2 * (f * d)) * q = (2 * (f * q)) * d
      /\ (2 * (x[1] * D) + d) * q = (2 * ((x[1] * q) * D)) + q * d
      /\ (2 * (f * d) + d) * q = (2 * (f * q) + q) * d
      /\ (2 * (x[1] * D)) * q = 2 * ((x[1] * q) * D)
      /\ 2 * ((a * d) * D) = (2 * (a * D)) * d
      /\ (2 * (a * D)) * d + q * d = (2 * (a * D) + q) * d
  BY <1>1, <1>4
<1>6. /\ 2 * (f * d) \in Int /\ 2 * (x[1] * D) + d \in Int /\ 2 * (x[1] * D) \in Int
      /\ 2 * (f * d) + d \in Int
  BY <1>1, <1>4
<1>7. /\ (2 * (f * d)) * q <= (2 * (x[1] * D) + d) * q
      /\ (2 * (x[1] * D)) * q <= (2 * (f * d) + d) * q
  BY <1>2, <1>6, Cancels
<1>8. /\ (2 * (f * q)) * d <= (2 * (a * D) + q) * d
      /\ (2 * (a * D)) * d <= (2 * (f * q) + q) * d
  BY <1>1, <1>5, <1>7
<1>9. /\ 2 * (f * q) \in Int /\ 2 * (a * D) + q \in Int /\ 2 * (a * D) \in Int
      /\ 2 * (f * q) + q \in Int
  BY <1>4
<1>10. /\ 2 * (f * q) <= 2 * (a * D) + q
       /\ 2 * (a * D) <= 2 * (f * q) + q
  BY <1>4, <1>8, <1>9, Cancels
<1>11. QED
  BY <1>3, <1>10 DEF Near

LEMMA ProductsBounded ==
  ASSUME NEW a \in Nat, NEW b \in Int, NEW c \in Nat, -c <= 2 * b, 2 * b <= c
  PROVE  -(a * c) <= 2 * (a * b) /\ 2 * (a * b) <= a * c
<1>1. a * (c - 2 * b) >= 0 /\ a * (c + 2 * b) >= 0
  BY Products
<1>2. a * (c - 2 * b) = a * c - 2 * (a * b) /\ a * (c + 2 * b) = a * c + 2 * (a * b)
  OBVIOUS
<1>3. a * c \in Int /\ a * b \in Int
  OBVIOUS
<1>4. QED
  BY <1>1, <1>2, <1>3

(* The sum of what was rounded is as far from the price as Slack allows. *)
LEMMA RoundedPartsAddUp ==
  ASSUME NEW c \in Nat, NEW k \in Nat, NEW r \in Nat, NEW m \in Nat, NEW p \in Nat,
         NEW g \in Nat, NEW f \in Nat, NEW h \in Nat, NEW q \in Nat \ {0},
         p * q = c * k + r * m, Near(g, k, q), Near(f, r, q), Near(h, m, q)
  PROVE  LET D == Decimals
             sum == 4 * ((c * g) * D + (f * h) * q)
             whole == 4 * (p * (D * D))
             slack == 2 * (c * D) + 2 * (h * q) + 2 * (f * q) + q
         IN  sum - whole <= slack /\ whole - sum <= slack
<1> DEFINE D == Decimals
           u == g * q - k * D
           v == f * q - r * D
           z == h * q - m * D
           sum == 4 * ((c * g) * D + (f * h) * q)
           whole == 4 * (p * (D * D))
           slack == 2 * (c * D) + 2 * (h * q) + 2 * (f * q) + q
<1>1. D \in Nat \ {0}
  BY DecimalsType
<1>2. /\ u \in Int /\ -q <= 2 * u /\ 2 * u <= q
      /\ v \in Int /\ -q <= 2 * v /\ 2 * v <= q
      /\ z \in Int /\ -q <= 2 * z /\ 2 * z <= q
  BY <1>1 DEF Near
<1> DEFINE cD == c * D
           fq == f * q
           hq == h * q
<1>3. cD \in Nat /\ fq \in Nat /\ hq \in Nat
  BY <1>1
<1>4. sum * q - whole * q = 4 * (cD * u) + 4 * (fq * z) + 4 * (hq * v) - 4 * (v * z)
  <2>1. whole * q = 4 * ((c * k + r * m) * (D * D))
    <3>1. whole * q = 4 * ((p * q) * (D * D))
      BY <1>1
    <3>2. QED
      BY <3>1
  <2>2. (c * k + r * m) * (D * D) = cD * (k * D) + (r * D) * (m * D)
    <3>1. (c * k) * (D * D) = cD * (k * D) /\ (r * m) * (D * D) = (r * D) * (m * D)
      BY <1>1
    <3> DEFINE w == D * D
               ck == c * k
               rm == r * m
    <3>2. w \in Int /\ ck \in Int /\ rm \in Int
      BY <1>1
    <3> HIDE DEF w, ck, rm
    <3>3. (ck + rm) * w = ck * w + rm * w
      BY <3>2
    <3>4. QED
      BY <3>1, <3>3 DEF w, ck, rm
  <2>3. sum * q = 4 * (cD * (g * q)) + 4 * (fq * hq)
    BY <1>1
  <2> DEFINE kD == k * D
             rD == r * D
             mD == m * D
             gq == g * q
  <2>4. kD \in Int /\ rD \in Int /\ mD \in Int /\ gq \in Int
    BY <1>1
  <2>5. u = gq - kD /\ v = fq - rD /\ z = hq - mD
    OBVIOUS
  <2>6. sum * q - whole * q = 4 * (cD * gq) + 4 * (fq * hq) - 4 * (cD * kD + rD * mD)
    <3>1. sum * q = 4 * (cD * gq) + 4 * (fq * hq)
      BY <2>3
    <3>2. whole * q = 4 * (cD * kD + rD * mD)
      BY <2>1, <2>2
    <3> DEFINE X == sum * q
               Y == whole * q
               P == 4 * (cD * gq)
               O == 4 * (fq * hq)
               R == 4 * (cD * kD + rD * mD)
    <3>3. X = P + O /\ Y = R
      BY <3>1, <3>2
    <3>6. P \in Int /\ O \in Int /\ R \in Int
      BY <1>3, <2>4
    <3> HIDE DEF X, Y, P, O, R
    <3>4. X - Y = P + O - R
      BY <3>3, <3>6
    <3>5. QED
      BY <3>4 DEF X, Y, P, O, R
  <2> HIDE DEF kD, rD, mD, gq, cD, fq, hq, u, v, z, sum, whole
  <2>7. cD * u = cD * gq - cD * kD
    BY <1>3, <2>4, <2>5
  <2>8. fq * z = fq * hq - fq * mD
    BY <1>3, <2>4, <2>5
  <2>9. hq * v = hq * fq - hq * rD /\ hq * fq = fq * hq
    BY <1>3, <2>4, <2>5
  <2>10. v * z = (fq - rD) * hq - (fq - rD) * mD
    BY <1>3, <2>4, <2>5
  <2>11. (fq - rD) * hq = fq * hq - rD * hq /\ (fq - rD) * mD = fq * mD - rD * mD
    BY <1>3, <2>4
  <2>12. rD * hq = hq * rD
    BY <1>3, <2>4
  <2> DEFINE A == fq * hq
             B == fq * mD
             C == hq * rD
             E == rD * mD
             G == cD * gq
             K == cD * kD
  <2>13. A \in Int /\ B \in Int /\ C \in Int /\ E \in Int /\ G \in Int /\ K \in Int
    BY <1>3, <2>4
  <2> DEFINE cu == cD * u
             fz == fq * z
             hv == hq * v
             vz == v * z
  <2>14. cu = G - K /\ fz = A - B /\ hv = A - C /\ vz = A - C - (B - E)
    BY <2>7, <2>8, <2>9, <2>10, <2>11, <2>12
  <2>15. sum * q - whole * q = 4 * G + 4 * A - 4 * (K + E)
    BY <2>6
  <2> HIDE DEF A, B, C, E, G, K, cu, fz, hv, vz
  <2>16. sum * q - whole * q = 4 * cu + 4 * fz + 4 * hv - 4 * vz
    BY <2>13, <2>14, <2>15
  <2>17. QED
    BY <2>16 DEF cu, fz, hv, vz
<1>5. slack * q = 2 * (cD * q) + 2 * (hq * q) + 2 * (fq * q) + q * q
  <2> HIDE DEF cD, fq, hq
  <2>1. slack = 2 * cD + 2 * hq + 2 * fq + q
    BY DEF cD, fq, hq
  <2>2. (2 * cD + 2 * hq + 2 * fq + q) * q = 2 * (cD * q) + 2 * (hq * q) + 2 * (fq * q) + q * q
    BY <1>3
  <2>3. QED
    BY <2>1, <2>2
<1>6. sum \in Int /\ whole \in Int /\ slack \in Int
  BY <1>1
<1> HIDE DEF u, v, z, cD, fq, hq, sum, whole, slack
<1> DEFINE cu == cD * u
           fz == fq * z
           hv == hq * v
           vz == v * z
<1>7. /\ -(cD * q) <= 2 * cu /\ 2 * cu <= cD * q
      /\ -(fq * q) <= 2 * fz /\ 2 * fz <= fq * q
      /\ -(hq * q) <= 2 * hv /\ 2 * hv <= hq * q
  <2>1. q \in Nat
    OBVIOUS
  <2>2. QED
    BY <1>2, <1>3, <2>1, ProductsBounded
<1>8. -(q * q) <= 4 * vz /\ 4 * vz <= q * q
  <2>1. CASE v >= 0
    <3>1. v \in Nat
      BY <1>2, <2>1
    <3>2. -(v * q) <= 2 * vz /\ 2 * vz <= v * q
      BY <1>2, <3>1, ProductsBounded
    <3>3. (2 * v) * q <= q * q /\ (2 * v) * q = 2 * (v * q)
      BY <1>2, Cancels
    <3>4. vz \in Int /\ v * q \in Int /\ q * q \in Int
      BY <1>2
    <3> HIDE DEF vz
    <3>5. QED
      BY <3>2, <3>3, <3>4
  <2>2. CASE v < 0
    <3>1. -v \in Nat
      BY <1>2, <2>2
    <3>2. -((-v) * q) <= 2 * ((-v) * z) /\ 2 * ((-v) * z) <= (-v) * q
      BY <1>2, <3>1, ProductsBounded
    <3>3. (2 * (-v)) * q <= q * q /\ (2 * (-v)) * q = 2 * ((-v) * q)
      <4>1. 2 * (-v) <= q /\ 2 * (-v) \in Int
        BY <1>2
      <4>2. QED
        BY <1>2, <4>1, Cancels
    <3>4. (-v) * z = -vz
      BY <1>2
    <3>5. vz \in Int /\ (-v) * q \in Int /\ q * q \in Int
      BY <1>2
    <3> HIDE DEF vz
    <3>6. QED
      BY <3>2, <3>3, <3>4, <3>5
  <2>3. QED
    BY <1>2, <2>1, <2>2
<1>9. /\ cu \in Int /\ fz \in Int /\ hv \in Int /\ vz \in Int
      /\ cD * q \in Int /\ fq * q \in Int /\ hq * q \in Int /\ q * q \in Int
  BY <1>2, <1>3
<1> HIDE DEF cu, fz, hv, vz
<1>10. sum * q - whole * q <= slack * q /\ whole * q - sum * q <= slack * q
  <2>1. sum * q - whole * q = 4 * cu + 4 * fz + 4 * hv - 4 * vz
    BY <1>4 DEF cu, fz, hv, vz
  <2>2. sum * q \in Int /\ whole * q \in Int /\ slack * q \in Int
    BY <1>6
  <2>3. QED
    BY <1>5, <1>7, <1>8, <1>9, <2>1, <2>2
<1>11. (sum - whole) * q = sum * q - whole * q /\ (whole - sum) * q = whole * q - sum * q
  BY <1>6
<1>12. sum - whole <= slack /\ whole - sum <= slack
  <2>1. sum - whole \in Int /\ whole - sum \in Int
    BY <1>6
  <2>2. QED
    BY <1>6, <1>10, <1>11, <2>1, Cancels
<1>13. QED
  BY <1>12 DEF sum, whole, slack

LEMMA TimesCommutes ==
  ASSUME NEW x \in Numbers, NEW y \in Numbers
  PROVE  Times(x, y) = Times(y, x)
<1>1. x[1] * y[1] = y[1] * x[1] /\ x[2] * y[2] = y[2] * x[2]
  BY DEF Numbers
<1>2. QED
  BY <1>1 DEF Times

(* What it takes for parts to add up, over a denominator q. *)
AddUpOver(price, cpu, core, gigabyte, ram) ==
  \E q \in Nat \ {0} : \E c, k, r, m, p, g, f, h \in Nat :
    /\ p * q = c * k + r * m /\ Near(g, k, q) /\ Near(f, r, q) /\ Near(h, m, q)
    /\ Is(cpu, c, q) /\ Is(price, p, q)
    /\ Is(core, g, Decimals) /\ Is(gigabyte, f, Decimals) /\ Is(ram, h, Decimals)
LEMMA SumWithinSlack ==
  ASSUME NEW price, NEW cpu, NEW core, NEW gigabyte, NEW ram,
         AddUpOver(price, cpu, core, gigabyte, ram)
  PROVE  Within(Plus(Times(cpu, core), Times(gigabyte, ram)), price, Slack(cpu, ram, gigabyte))
<1>a. PICK q \in Nat \ {0} : \E c, k, r, m, p, g, f, h \in Nat :
        /\ p * q = c * k + r * m /\ Near(g, k, q) /\ Near(f, r, q) /\ Near(h, m, q)
        /\ Is(cpu, c, q) /\ Is(price, p, q)
        /\ Is(core, g, Decimals) /\ Is(gigabyte, f, Decimals) /\ Is(ram, h, Decimals)
  BY DEF AddUpOver
<1>b. PICK c, k, r, m, p, g, f, h \in Nat :
        /\ p * q = c * k + r * m /\ Near(g, k, q) /\ Near(f, r, q) /\ Near(h, m, q)
        /\ Is(cpu, c, q) /\ Is(price, p, q)
        /\ Is(core, g, Decimals) /\ Is(gigabyte, f, Decimals) /\ Is(ram, h, Decimals)
  BY <1>a
<1> USE <1>b
<1> DEFINE D == Decimals
           Q == ((4 * q) * D) * D
           total == Plus(Times(cpu, core), Times(gigabyte, ram))
           sum == 4 * ((c * g) * D + (f * h) * q)
           whole == 4 * (p * (D * D))
           slack == 2 * (c * D) + 2 * (h * q) + 2 * (f * q) + q
<1>1. D \in Nat \ {0}
  BY DecimalsType
<1>2. /\ Q \in Nat \ {0} /\ q * D \in Nat \ {0} /\ D * D \in Nat \ {0}
      /\ 4 * q \in Nat \ {0} /\ 4 * D \in Nat \ {0} /\ (4 * q) * D \in Nat \ {0}
      /\ 2 * D \in Nat \ {0} /\ 2 * q \in Nat \ {0} /\ (2 * q) * D \in Nat \ {0}
      /\ (4 * D) * D \in Nat \ {0}
  BY <1>1, Products
<1>3. Is(total, sum, Q)
  <2>1. Is(Times(cpu, core), c * g, q * D)
    BY <1>1, TimesIs
  <2>2. Is(Times(cpu, core), (c * g) * (4 * D), (q * D) * (4 * D))
    <3>1. c * g \in Int
      OBVIOUS
    <3> HIDE DEF D
    <3>2. QED
      BY <1>2, <2>1, <3>1, IsScaled
  <2>3. Is(Times(gigabyte, ram), f * h, D * D)
    BY <1>1, TimesIs
  <2>4. Is(Times(gigabyte, ram), (f * h) * (4 * q), (D * D) * (4 * q))
    BY <1>2, <2>3, IsScaled
  <2>5. (q * D) * (4 * D) = Q /\ (D * D) * (4 * q) = Q
    BY <1>1
  <2>6. (c * g) * (4 * D) \in Int /\ (f * h) * (4 * q) \in Int
    BY <1>1
  <2>7. Is(total, (c * g) * (4 * D) + (f * h) * (4 * q), Q)
    <3> HIDE DEF Q
    <3>1. QED
      BY <1>2, <2>2, <2>4, <2>5, <2>6, PlusIs
  <2>8. (c * g) * (4 * D) + (f * h) * (4 * q) = sum
    BY <1>1
  <2>9. QED
    BY <2>7, <2>8
<1>4. Is(price, whole, Q)
  <2>1. Is(price, p * ((4 * D) * D), q * ((4 * D) * D))
    <3> DEFINE S == (4 * D) * D
    <3>1. S \in Nat \ {0} /\ p \in Int
      BY <1>2
    <3> HIDE DEF S, D
    <3>2. Is(price, p * S, q * S)
      BY <3>1, IsScaled
    <3>3. QED
      BY <3>2 DEF S
  <2>2. p * ((4 * D) * D) = whole /\ q * ((4 * D) * D) = Q
    BY <1>1
  <2>3. QED
    BY <2>1, <2>2
<1>5. Is(HalfUnit, 1, 2 * D)
  BY <1>2 DEF HalfUnit, Is, FiniteNumbers
<1>6. Is(Slack(cpu, ram, gigabyte), slack, Q)
  <2> DEFINE N == (2 * q) * D
  <2>1. Is(cpu, c * (2 * D), N)
    <3>1. q * (2 * D) = N
      BY <1>1
    <3>2. Is(cpu, c * (2 * D), q * (2 * D))
      <4>1. c \in Int /\ 2 * D \in Nat \ {0}
        BY <1>2
      <4> HIDE DEF D
      <4>2. QED
        BY <4>1, IsScaled
    <3>3. QED
      BY <3>1, <3>2
  <2>2. D * (2 * q) = N /\ (2 * D) * q = N
    BY <1>1
  <2>3. Is(ram, h * (2 * q), N) /\ Is(gigabyte, f * (2 * q), N)
    BY <1>1, <1>2, <2>2, IsScaled
  <2>4. Is(HalfUnit, 1 * q, N)
    BY <1>2, <1>5, <2>2, IsScaled
  <2>5. c * (2 * D) \in Int /\ h * (2 * q) \in Int /\ f * (2 * q) \in Int /\ 1 * q \in Int
    BY <1>1
  <2> DEFINE o == (c * (2 * D) + h * (2 * q)) + (f * (2 * q) + 1 * q)
  <2> HIDE DEF N
  <2>6. Is(Plus(Plus(cpu, ram), Plus(gigabyte, HalfUnit)), o, N)
    <3>1. N \in Nat \ {0}
      BY <1>2 DEF N
    <3>2. Is(Plus(cpu, ram), c * (2 * D) + h * (2 * q), N)
      BY <2>1, <2>3, <2>5, <3>1, PlusIs
    <3>3. Is(Plus(gigabyte, HalfUnit), f * (2 * q) + 1 * q, N)
      BY <2>3, <2>4, <2>5, <3>1, PlusIs
    <3>4. c * (2 * D) + h * (2 * q) \in Int /\ f * (2 * q) + 1 * q \in Int
      BY <2>5
    <3>5. QED
      BY <3>1, <3>2, <3>3, <3>4, PlusIs
  <2>7. o = slack
    BY <1>1
  <2>8. o \in Int
    BY <2>5
  <2> HIDE DEF o
  <2>9. Is(Slack(cpu, ram, gigabyte), 1 * o, (2 * D) * N)
    BY <1>2, <1>5, <2>6, <2>8, TimesIs DEF Slack, N
  <2>10. (2 * D) * N = Q
    BY <1>1 DEF N
  <2>11. QED
    BY <2>7, <2>8, <2>9, <2>10
<1>7. sum \in Int /\ whole \in Int /\ slack \in Int
  BY <1>1
<1>8. sum - whole <= slack /\ whole - sum <= slack
  BY RoundedPartsAddUp
<1> HIDE DEF total, sum, whole, slack, Q
<1>9. Within(total, price, Slack(cpu, ram, gigabyte))
  BY <1>2, <1>3, <1>4, <1>6, <1>7, <1>8, WithinIs
<1>10. QED
  BY <1>9 DEF total

----------------------------------------------------------------------------
(* The answers of the provider, from the arithmetic above.                 *)

(* The configured prices, of which flags accept anything. *)
ConfiguredPrices == cfg \in CustomPricings

LEMMA NumberNotUnset ==
  ASSUME NEW x \in Numbers
  PROVE  x # Unset /\ Parsed(x) = x
<1>1. DOMAIN x = 1..2 /\ DOMAIN Unset = {}
  BY DEF Numbers, Unset
<1>2. 1 \in 1..2
  OBVIOUS
<1>3. x # Unset
  BY <1>1, <1>2
<1>4. QED
  BY <1>3 DEF Parsed

LEMMA ConfigurationType ==
  ASSUME ConfiguredPrices
  PROVE  /\ cfg.cpu \in Numbers /\ cfg.ram \in Numbers
         /\ OrZero(cfg.cpu) \in Numbers /\ OrZero(cfg.ram) \in Numbers
         /\ cpuToRAMRatio \in Numbers
<1>1. cfg.cpu \in Numbers /\ cfg.ram \in Numbers
  BY NodeCostAssumption DEF ConfiguredPrices
<1>2. OrZero(cfg.cpu) \in Numbers /\ OrZero(cfg.ram) \in Numbers
  BY <1>1, OrZeroType
<1>3. QED
  BY <1>1, <1>2, OverType, OrZeroType DEF cpuToRAMRatio

LEMMA MultipleType ==
  ASSUME ConfiguredPrices, NEW cpu \in Numbers, NEW ram \in Numbers
  PROVE  /\ Plus(Times(cpu, cpuToRAMRatio), ram) \in Numbers
         /\ ramMultiple(cpu, ram) \in Numbers
<1>1. Times(cpu, cpuToRAMRatio) \in Numbers
  BY ConfigurationType, TimesType
<1>2. QED
  BY <1>1, PlusType, OrZeroType DEF ramMultiple

LEMMA BreakdownType ==
  ASSUME ConfiguredPrices, NEW price \in Numbers, NEW cpu \in Numbers, NEW ram \in Numbers
  PROVE  LET parts == Breakdown(price, cpu, ram)
         IN  /\ parts.CpuHourlyCost \in Numbers
             /\ Parsed(parts.CpuHourlyCost) = parts.CpuHourlyCost
             /\ Parsed(parts.RamGBHourlyCost) \in Numbers
<1> DEFINE ramPrice == OrZero(Over(OrZero(price), ramMultiple(cpu, ram)))
           core == IF IsZero(cpu) THEN OrZero(price) ELSE Over(OrZero(price), cpu)
<1>1. OrZero(price) \in Numbers
  BY OrZeroType
<1>2. ramPrice \in Numbers
  BY <1>1, MultipleType, OverType, OrZeroType
<1>3. core \in Numbers
  BY <1>1, OverType
<1>4. Times(ramPrice, cpuToRAMRatio) \in Numbers
  BY <1>2, ConfigurationType, TimesType
<1>5. F(Times(ramPrice, cpuToRAMRatio)) \in Numbers /\ F(ramPrice) \in Numbers /\ F(core) \in Numbers
  BY <1>2, <1>3, <1>4, FType
<1>6. CASE ~IsZero(OrZero(cfg.ram))
  <2>1. Breakdown(price, cpu, ram) =
          [CpuHourlyCost |-> F(Times(ramPrice, cpuToRAMRatio)), RamGBHourlyCost |-> F(ramPrice)]
    BY <1>6 DEF Breakdown
  <2>2. QED
    BY <1>5, <2>1, NumberNotUnset
<1>7. CASE IsZero(OrZero(cfg.ram))
  <2>1. Breakdown(price, cpu, ram) = [CpuHourlyCost |-> F(core), RamGBHourlyCost |-> Unset]
    BY <1>7 DEF Breakdown
  <2>2. Parsed(Unset) \in Numbers
    BY OrZeroType DEF Parsed, Zero, Number, Numbers
  <2>3. QED
    BY <1>5, <2>1, <2>2, NumberNotUnset
<1>8. QED
  BY <1>6, <1>7

(* With a price for memory: what every part is, over a denominator. *)
LEMMA RatioIsFinite ==
  ASSUME ConfiguredPrices, ~IsInf(cfg.cpu), ~IsZero(OrZero(cfg.ram))
  PROVE  cpuToRAMRatio \in FiniteNumbers
<1>1. OrZero(cfg.cpu) \in Numbers /\ OrZero(cfg.ram) \in Numbers /\ cfg.cpu \in Numbers /\ cfg.ram \in Numbers
  BY ConfigurationType
<1>2. IsFinite(OrZero(cfg.cpu))
  BY <1>1, OrZeroType DEF OrZero, IsNaN, IsInf, IsFinite, Numbers
<1>3. OrZero(cfg.ram)[1] > 0
  <2>1. ~IsNaN(OrZero(cfg.ram))
    BY DEF OrZero, IsNaN, Zero, Number
  <2>2. QED
    BY <1>1, <2>1 DEF IsZero, IsNaN, Numbers
<1>4. Over(OrZero(cfg.cpu), OrZero(cfg.ram)) \in Numbers
       /\ IsFinite(Over(OrZero(cfg.cpu), OrZero(cfg.ram)))
  BY <1>1, <1>2, <1>3, OverType
<1>5. QED
  BY <1>4, FiniteType DEF cpuToRAMRatio, OrZero, IsNaN, IsFinite

LEMMA FiniteMultiple ==
  ASSUME ConfiguredPrices, cpuToRAMRatio \in FiniteNumbers,
         NEW cpu \in FiniteNumbers, NEW ram \in FiniteNumbers
  PROVE  /\ ramMultiple(cpu, ram) = Plus(Times(cpu, cpuToRAMRatio), ram)
         /\ ramMultiple(cpu, ram) \in FiniteNumbers
         /\ Times(cpu, cpuToRAMRatio) \in FiniteNumbers
<1>1. Times(cpu, cpuToRAMRatio) \in FiniteNumbers
  BY TimesType, FiniteType
<1>2. Plus(Times(cpu, cpuToRAMRatio), ram) \in FiniteNumbers
  BY <1>1, PlusType, FiniteType
<1>3. QED
  BY <1>1, <1>2, Terms DEF ramMultiple, OrZero, IsNaN

LEMMA ZeroOver ==
  ASSUME NEW x, NEW a \in Int, NEW q \in Nat \ {0}, Is(x, a, q)
  PROVE  a \in Nat /\ (IsZero(x) <=> a = 0)
<1>1. x[1] \in Nat /\ x[2] \in Nat \ {0} /\ x[1] * q = a * x[2]
  BY Terms DEF Is
<1>2. CASE a < 0
  <2>1. -a \in Nat \ {0} /\ (-a) * x[2] = -(a * x[2])
    BY <1>1, <1>2
  <2>2. (-a) * x[2] > 0 /\ x[1] * q >= 0 /\ a * x[2] \in Int
    BY <1>1, <2>1, Products
  <2>3. QED
    BY <1>1, <2>1, <2>2
<1>3. CASE a >= 0
  <2>1. a \in Nat /\ (x[1] * q > 0 <=> x[1] > 0) /\ (a * x[2] > 0 <=> a > 0)
    BY <1>1, <1>3, Products
  <2>2. QED
    BY <1>1, <2>1 DEF IsZero
<1>4. QED
  BY <1>2, <1>3

(* Rounding the memory does not make something of nothing. *)
LEMMA RoundedMultiple ==
  ASSUME ConfiguredPrices, cpuToRAMRatio \in FiniteNumbers,
         NEW cpu \in FiniteNumbers, NEW ram \in FiniteNumbers, IsZero(ramMultiple(cpu, ram))
  PROVE  IsZero(ramMultiple(cpu, F(ram)))
<1> DEFINE share == Times(cpu, cpuToRAMRatio)
<1>1. /\ share \in FiniteNumbers /\ ramMultiple(cpu, ram) = Plus(share, ram)
      /\ ramMultiple(cpu, ram) \in FiniteNumbers
  BY FiniteMultiple
<1>2. F(ram) \in FiniteNumbers
  BY FType, FiniteType
<1>3. ramMultiple(cpu, F(ram)) = Plus(share, F(ram))
  BY <1>2, FiniteMultiple
<1> HIDE DEF share
<1> DEFINE x == <<share, ram>>
<1>4. PICK q \in Nat \ {0} : \A i \in 1..2 : \E a \in Nat : Is(x[i], a, q)
  <2>1. \A i \in 1..2 : x[i] \in FiniteNumbers
    BY <1>1
  <2> HIDE DEF x
  <2>2. QED
    BY <2>1, CommonDenominator
<1>5. PICK s \in Nat, m \in Nat : Is(share, s, q) /\ Is(ram, m, q)
  <2>1. 1 \in 1..2 /\ 2 \in 1..2 /\ x[1] = share /\ x[2] = ram
    OBVIOUS
  <2> HIDE DEF x
  <2>2. QED
    BY <1>4, <2>1
<1>6. Is(Plus(share, ram), s + m, q)
  BY <1>5, PlusIs
<1>7. s = 0 /\ m = 0
  BY <1>1, <1>6, ZeroOver
<1>8. PICK h \in Nat : Is(F(ram), h, Decimals) /\ Near(h, 0, q)
  BY <1>5, <1>7, RoundedOver
<1>9. h = 0
  <2>1. 2 * (h * q) <= q
    BY <1>8, DecimalsType DEF Near
  <2>2. (2 * h) * q <= 1 * q /\ 2 * h \in Int
    BY <2>1
  <2>3. 2 * h <= 1
    BY <2>2, Cancels
  <2>4. QED
    BY <2>3
<1>10. Is(share, 0, 1) /\ Is(F(ram), 0, 1)
  <2>1. ASSUME NEW y, NEW d \in Nat \ {0}, Is(y, 0, d) PROVE Is(y, 0, 1)
    <3>1. 0 * d = 0 /\ 1 * d = d /\ 0 \in Int /\ 1 \in Nat \ {0}
      OBVIOUS
    <3>2. QED
      BY <2>1, <3>1, IsScaled
  <2>2. QED
    BY <1>5, <1>7, <1>8, <1>9, <2>1, DecimalsType
<1>11. Is(Plus(share, F(ram)), 0 + 0, 1)
  BY <1>10, PlusIs
<1>12. QED
  BY <1>3, <1>11, ZeroOver

(* The parts of a price, whether memory has a price or not. *)
LEMMA PartsOfPrice ==
  ASSUME ConfiguredPrices, ~IsInf(cfg.cpu),
         NEW price \in FiniteNumbers, NEW cpu \in FiniteNumbers, NEW ram \in FiniteNumbers,
         IF IsZero(OrZero(cfg.ram)) THEN ~IsZero(cpu) ELSE ~IsZero(ramMultiple(cpu, F(ram)))
  PROVE  LET parts == Breakdown(price, cpu, ram)
             core == parts.CpuHourlyCost
             gigabyte == Parsed(parts.RamGBHourlyCost)
         IN  /\ core \in FiniteNumbers /\ gigabyte \in FiniteNumbers /\ F(ram) \in FiniteNumbers
             /\ Within(Plus(Times(cpu, core), Times(gigabyte, F(ram))), price,
                       Slack(cpu, F(ram), gigabyte))
<1> DEFINE parts == Breakdown(price, cpu, ram)
<1>0. /\ OrZero(price) = price /\ price \in Numbers /\ cpu \in Numbers /\ ram \in Numbers
      /\ IsFinite(price) /\ F(ram) \in FiniteNumbers
  <2>1. price[2] # 0 /\ price \in Numbers /\ cpu \in Numbers /\ ram \in Numbers
        /\ IsFinite(price) /\ IsFinite(ram)
    BY Terms
  <2>2. QED
    BY <2>1, FType, FiniteType DEF OrZero, IsNaN
<1>1. CASE ~IsZero(OrZero(cfg.ram))
  <2> DEFINE ratio == cpuToRAMRatio
             share == Times(cpu, ratio)
             multiple == ramMultiple(cpu, ram)
             ramPrice == OrZero(Over(OrZero(price), multiple))
             coreCost == Times(ramPrice, ratio)
  <2>1. ratio \in FiniteNumbers
    BY <1>1, RatioIsFinite
  <2>2. /\ share \in FiniteNumbers /\ multiple \in FiniteNumbers
        /\ multiple = Plus(share, ram)
    BY <2>1, FiniteMultiple
  <2>3. ~IsZero(multiple) /\ multiple[1] > 0
    <3>1. ~IsZero(multiple)
      BY <1>1, <2>1, RoundedMultiple
    <3>2. QED
      BY <2>2, <3>1, Terms DEF IsZero
  <2>4. Over(price, multiple) \in FiniteNumbers
    BY <1>0, <2>2, <2>3, Terms, OverType, FiniteType
  <2>5. ramPrice = Over(price, multiple) /\ ramPrice \in FiniteNumbers
    BY <1>0, <2>4, Terms DEF OrZero, IsNaN
  <2>6. coreCost \in FiniteNumbers
    BY <2>1, <2>5, TimesType, FiniteType
  <2>7. parts.CpuHourlyCost = F(coreCost) /\ parts.RamGBHourlyCost = F(ramPrice)
    BY <1>1 DEF Breakdown
  <2>8. F(coreCost) \in FiniteNumbers /\ F(ramPrice) \in FiniteNumbers /\ Parsed(F(ramPrice)) = F(ramPrice)
    BY <2>5, <2>6, FType, FiniteType, NumberNotUnset
  <2> HIDE DEF ratio, share, multiple, ramPrice, coreCost, parts
  <2> DEFINE x == <<cpu, ram, price, ratio, share, multiple, ramPrice, coreCost>>
  <2>9. PICK q \in Nat \ {0} : \A i \in 1..8 : \E a \in Nat : Is(x[i], a, q)
    <3>1. \A i \in 1..8 : x[i] \in FiniteNumbers
      BY <2>1, <2>2, <2>5, <2>6
    <3> HIDE DEF x
    <3>2. QED
      BY <3>1, CommonDenominator
  <2>10. PICK c \in Nat, m \in Nat, p \in Nat, t \in Nat :
           Is(cpu, c, q) /\ Is(ram, m, q) /\ Is(price, p, q) /\ Is(ratio, t, q)
    <3>1. /\ 1 \in 1..8 /\ 2 \in 1..8 /\ 3 \in 1..8 /\ 4 \in 1..8
          /\ x[1] = cpu /\ x[2] = ram /\ x[3] = price /\ x[4] = ratio
      OBVIOUS
    <3> HIDE DEF x
    <3>2. QED
      BY <2>9, <3>1
  <2>11. PICK s \in Nat, u \in Nat, r \in Nat, k \in Nat :
           Is(share, s, q) /\ Is(multiple, u, q) /\ Is(ramPrice, r, q) /\ Is(coreCost, k, q)
    <3>1. /\ 5 \in 1..8 /\ 6 \in 1..8 /\ 7 \in 1..8 /\ 8 \in 1..8
          /\ x[5] = share /\ x[6] = multiple /\ x[7] = ramPrice /\ x[8] = coreCost
      OBVIOUS
    <3> HIDE DEF x
    <3>2. QED
      BY <2>9, <3>1
  <2>12. s * q = c * t
    BY <2>10, <2>11, TimesOver DEF share
  <2>13. u = s + m
    BY <2>2, <2>10, <2>11, PlusOver
  <2>14. r * u = p * q
    BY <2>2, <2>3, <2>5, <2>10, <2>11, OverTimes
  <2>15. k * q = r * t
    BY <2>10, <2>11, TimesOver DEF coreCost
  <2>16. r * s = c * k
    <3>1. (r * s) * q = r * (s * q) /\ r * (c * t) = c * (r * t) /\ c * (k * q) = (c * k) * q
      OBVIOUS
    <3>2. r * s \in Int /\ c * k \in Int /\ (r * s) * q = (c * k) * q
      BY <2>12, <2>15, <3>1
    <3>3. QED
      BY <3>2, Cancels
  <2>17. p * q = c * k + r * m
    <3>1. r * (s + m) = r * s + r * m
      OBVIOUS
    <3>2. QED
      BY <2>13, <2>14, <2>16, <3>1
  <2>18. PICK g \in Nat : Is(F(coreCost), g, Decimals) /\ Near(g, k, q)
    BY <2>11, RoundedOver
  <2>19. PICK f \in Nat : Is(F(ramPrice), f, Decimals) /\ Near(f, r, q)
    BY <2>11, RoundedOver
  <2>20. PICK h \in Nat : Is(F(ram), h, Decimals) /\ Near(h, m, q)
    BY <2>10, RoundedOver
  <2>21. Within(Plus(Times(cpu, F(coreCost)), Times(F(ramPrice), F(ram))), price,
                Slack(cpu, F(ram), F(ramPrice)))
    <3>1. AddUpOver(price, cpu, F(coreCost), F(ramPrice), F(ram))
      <4> USE DEF AddUpOver
      <4> WITNESS q \in Nat \ {0}
      <4> WITNESS c \in Nat, k \in Nat, r \in Nat, m \in Nat,
                  p \in Nat, g \in Nat, f \in Nat, h \in Nat
      <4> QED
        BY <2>10, <2>17, <2>18, <2>19, <2>20
    <3>2. QED
      BY <3>1, SumWithinSlack
  <2>22. QED
    BY <1>0, <2>7, <2>8, <2>21 DEF parts
<1>2. CASE IsZero(OrZero(cfg.ram))
  <2> DEFINE coreCost == Over(price, cpu)
  <2>1. ~IsZero(cpu) /\ cpu[1] > 0
    BY <1>2, Terms DEF IsZero
  <2>2. coreCost \in FiniteNumbers
    BY <1>0, <2>1, OverType, FiniteType
  <2>3. parts.CpuHourlyCost = F(coreCost) /\ Parsed(parts.RamGBHourlyCost) = Zero
    BY <1>0, <1>2, <2>1 DEF Breakdown, Parsed
  <2>4. F(coreCost) \in FiniteNumbers /\ Zero \in FiniteNumbers
    BY <1>0, <2>2, FType, FiniteType, OrZeroType
  <2> HIDE DEF coreCost, parts
  <2> DEFINE x == <<cpu, ram, price, coreCost>>
  <2>5. PICK q \in Nat \ {0} : \A i \in 1..4 : \E a \in Nat : Is(x[i], a, q)
    <3>1. \A i \in 1..4 : x[i] \in FiniteNumbers
      BY <2>2
    <3> HIDE DEF x
    <3>2. QED
      BY <3>1, CommonDenominator
  <2>6. PICK c \in Nat, m \in Nat, p \in Nat, k \in Nat :
           Is(cpu, c, q) /\ Is(ram, m, q) /\ Is(price, p, q) /\ Is(coreCost, k, q)
    <3>1. /\ 1 \in 1..4 /\ 2 \in 1..4 /\ 3 \in 1..4 /\ 4 \in 1..4
          /\ x[1] = cpu /\ x[2] = ram /\ x[3] = price /\ x[4] = coreCost
      OBVIOUS
    <3> HIDE DEF x
    <3>2. QED
      BY <2>5, <3>1
  <2>7. k * c = p * q
    BY <2>1, <2>6, OverTimes DEF coreCost
  <2>8. p * q = c * k + 0 * m
    BY <2>7
  <2>9. PICK g \in Nat : Is(F(coreCost), g, Decimals) /\ Near(g, k, q)
    BY <2>6, RoundedOver
  <2>10. PICK h \in Nat : Is(F(ram), h, Decimals) /\ Near(h, m, q)
    BY <2>6, RoundedOver
  <2>11. Is(Zero, 0, Decimals) /\ Near(0, 0, q)
    BY <2>4, DecimalsType DEF Is, Near, Zero, Number
  <2>12. Within(Plus(Times(cpu, F(coreCost)), Times(Zero, F(ram))), price,
                Slack(cpu, F(ram), Zero))
    <3>1. AddUpOver(price, cpu, F(coreCost), Zero, F(ram))
      <4> USE DEF AddUpOver
      <4> WITNESS q \in Nat \ {0}
      <4> WITNESS c \in Nat, k \in Nat, 0 \in Nat, m \in Nat,
                  p \in Nat, g \in Nat, 0 \in Nat, h \in Nat
      <4> QED
        BY <2>6, <2>8, <2>9, <2>10, <2>11
    <3>2. QED
      BY <3>1, SumWithinSlack
  <2>13. QED
    BY <1>0, <2>3, <2>4, <2>12 DEF parts
<1>3. QED
  BY <1>1, <1>2

----------------------------------------------------------------------------
(* The configuration does not change, so what has been answered and shown *)
(* stays as it is.                                                        *)
NodeInv == \/ node = Unset /\ gauges = Unset
           \/ node # Unset /\ (ByDefault(node) \/ BrokenDown(node)) /\ gauges = Emitted(node)
PodInv == pod # Unset => IsFinite(pod.Cost) /\ BrokenDown(pod)
LEMMA NodeUnchanged ==
  ASSUME cfg' = cfg, NodeInv, node' = node, gauges' = gauges
  PROVE  NodeInv'
<1>1. cpuToRAMRatio' = cpuToRAMRatio
  BY DEF cpuToRAMRatio
<1>2. ByDefault(node)' <=> ByDefault(node)
  BY DEF ByDefault
<1>3. BrokenDown(node)' <=> BrokenDown(node)
  BY <1>1 DEF BrokenDown, Breakdown, ramMultiple
<1>4. Emitted(node)' = Emitted(node)
  BY DEF Emitted, RamCost
<1>5. QED
  BY <1>2, <1>3, <1>4 DEF NodeInv
LEMMA PodUnchanged ==
  ASSUME cfg' = cfg, PodInv, pod' = pod
  PROVE  PodInv'
<1>1. cpuToRAMRatio' = cpuToRAMRatio
  BY DEF cpuToRAMRatio
<1>2. BrokenDown(pod)' <=> BrokenDown(pod)
  BY <1>1 DEF BrokenDown, Breakdown, ramMultiple
<1>3. QED
  BY <1>2 DEF PodInv

LEMMA MachineType ==
  ASSUME NEW machine \in Capacities \cup PodSpecs \cup {Unreported}
  PROVE  machine \in Machines /\ machine.cpu \in FiniteNumbers /\ machine.ram \in FiniteNumbers
<1>1. Zero \in FiniteNumbers
  BY DEF Zero, Number, FiniteNumbers
<1>2. Unreported \in Machines
  BY <1>1 DEF Unreported, Machines
<1>3. machine \in Machines
  BY <1>2, NodeCostAssumption
<1>4. QED
  BY <1>3 DEF Machines

(* An answer is made of the configured prices or broken down from a price  *)
(* and the size of a machine, and the gauges show it: what PricingInv says *)
(* holds of every state.                                                   *)
THEOREM PricingInvariant == PricingSpec => []PricingInv
<1>1. PricingInit => PricingInv
  BY DEF PricingInit, PricingInv, ConfiguredPrices
<1>2. PricingInv /\ [PricingNext]_pricing => PricingInv'
  <2> SUFFICES ASSUME PricingInv, [PricingNext]_pricing
               PROVE  PricingInv'
    OBVIOUS
  <2>0. /\ ConfiguredPrices /\ capacity.cpu \in FiniteNumbers /\ capacity.ram \in FiniteNumbers
        /\ Unset \notin Numbers /\ NodeInv /\ PodInv
    <3>1. capacity \in Machines
      BY MachineType DEF PricingInv
    <3>2. QED
      BY <3>1, NumberNotUnset DEF PricingInv, ConfiguredPrices, Machines, NodeInv, PodInv
  <2>1. CASE Pass
    <3>1. PICK p \in IF cached = {} THEN {getDefaultNodePrice}
                     ELSE {getCloudInstancePrice(i) : i \in cached} :
            node' = computeNodeBreakdownCost(p)
      BY <2>1 DEF Pass
    <3>2. /\ cfg' = cfg /\ capacity' = capacity /\ cached' = cached /\ pod' = pod
          /\ gauges' = Emitted(node')
      BY <2>1 DEF Pass
    <3>3. node' # Unset /\ (ByDefault(node)' \/ BrokenDown(node)')
      <4>1. CASE p = getDefaultNodePrice
        <5>1. node' = getDefaultNodePrice
          BY <3>1, <4>1 DEF computeNodeBreakdownCost, getDefaultNodePrice
        <5>2. node' # Unset /\ ByDefault(node)'
          BY <2>0, <3>2, <5>1 DEF getDefaultNodePrice, ByDefault, Unset
        <5>3. QED
          BY <5>2
      <4>2. CASE p # getDefaultNodePrice
        <5>1. PICK i \in CachedInstances : p = getCloudInstancePrice(i)
          BY <3>1, <4>2 DEF PricingInv
        <5>2. i.chargeType \in {"PREPAID", "POSTPAID_BY_HOUR", "SPOTPAID"}
          BY <4>2, <5>1 DEF getCloudInstancePrice
        <5>3. HourlyPrice(i) \in Numbers
          <6>1. Number(HoursPerMonth) \in Numbers
            BY DEF Number, HoursPerMonth, Numbers
          <6>2. QED
            BY <6>1, OverType, NodeCostAssumption DEF HourlyPrice
        <5>4. OrOfNode(i.cpu, capacity.cpu) \in FiniteNumbers
          BY <2>0, NodeCostAssumption DEF OrOfNode
        <5>5. /\ p.Cost = HourlyPrice(i) /\ p.Cpu = OrOfNode(i.cpu, capacity.cpu)
              /\ p = [Cost |-> p.Cost, Cpu |-> p.Cpu, CpuHourlyCost |-> Unset,
                      Ram |-> p.Ram, RamGBHourlyCost |-> Unset, UsesDefaultPrice |-> FALSE]
          BY <5>1, <5>2 DEF getCloudInstancePrice
        <5> DEFINE parts == Breakdown(p.Cost, p.Cpu, capacity.ram)
        <5> HIDE DEF parts
        <5>6. node' = [Cost |-> p.Cost, Cpu |-> p.Cpu, CpuHourlyCost |-> parts.CpuHourlyCost,
                       Ram |-> F(capacity.ram), RamGBHourlyCost |-> parts.RamGBHourlyCost,
                       UsesDefaultPrice |-> FALSE]
          <6>1. ~p.UsesDefaultPrice
            BY <5>1, <5>2 DEF getCloudInstancePrice
          <6>2. node' = [p EXCEPT !.Ram = F(capacity.ram),
                                  !.CpuHourlyCost = parts.CpuHourlyCost,
                                  !.RamGBHourlyCost = parts.RamGBHourlyCost]
            BY <3>1, <6>1 DEF computeNodeBreakdownCost, parts
          <6> DEFINE ram == F(capacity.ram)
                     a == p.Cost
                     b == p.Cpu
                     c == p.Ram
          <6>3. p = [Cost |-> a, Cpu |-> b, CpuHourlyCost |-> Unset,
                     Ram |-> c, RamGBHourlyCost |-> Unset, UsesDefaultPrice |-> FALSE]
            BY <5>5
          <6> HIDE DEF ram, a, b, c
          <6>4. node' = [Cost |-> a, Cpu |-> b, CpuHourlyCost |-> parts.CpuHourlyCost,
                         Ram |-> ram, RamGBHourlyCost |-> parts.RamGBHourlyCost,
                         UsesDefaultPrice |-> FALSE]
            BY <6>2, <6>3 DEF ram
          <6>5. QED
            BY <6>4 DEF ram, a, b
        <5>7. node' # Unset
          BY <5>6 DEF Unset
        <5>8. BrokenDown(node')
          BY <5>3, <5>4, <5>5, <5>6 DEF BrokenDown, parts, PricingInv
        <5>9. cpuToRAMRatio' = cpuToRAMRatio
          BY <3>2 DEF cpuToRAMRatio
        <5>10. BrokenDown(node)'
          BY <3>2, <5>8, <5>9 DEF BrokenDown, Breakdown, ramMultiple
        <5>11. QED
          BY <5>7, <5>10
      <4>3. QED
        BY <4>1, <4>2
    <3>4. gauges' = Emitted(node)'
      BY <3>2 DEF Emitted, RamCost
    <3>5. PodInv'
      BY <2>0, <3>2, PodUnchanged
    <3>6. QED
      BY <3>2, <3>3, <3>4, <3>5 DEF PricingInv, PodInv
  <2>2. CASE PodPriced
    <3>1. PICK spec \in PodSpecs, cents \in PodCosts : ServerlessPodPrice(spec, cents)
      BY <2>2 DEF PodPriced
    <3> DEFINE cost == F(Over(cents, Number(100)))
               parts == Breakdown(cost, spec.cpu, spec.ram)
    <3>2. /\ cfg' = cfg /\ capacity' = capacity /\ cached' = cached
          /\ node' = node /\ gauges' = gauges
          /\ pod' = [Cost |-> cost, Cpu |-> spec.cpu, Ram |-> F(spec.ram),
                     CpuHourlyCost |-> parts.CpuHourlyCost,
                     RamGBHourlyCost |-> parts.RamGBHourlyCost]
      BY <3>1 DEF ServerlessPodPrice
    <3>3. cost \in Numbers /\ IsFinite(cost)
      <4>1. Number(100) \in Numbers /\ Number(100)[1] > 0 /\ cents \in Numbers /\ IsFinite(cents)
        BY NodeCostAssumption, Terms DEF Number, Numbers
      <4>2. QED
        BY <4>1, OverType, FType
    <3>4. spec.cpu \in FiniteNumbers
      BY NodeCostAssumption DEF Machines
    <3> HIDE DEF cost
    <3>5. BrokenDown(pod')
      <4> HIDE DEF parts
      <4>1. QED
        BY <3>2, <3>3, <3>4 DEF BrokenDown, parts
    <3>6. cpuToRAMRatio' = cpuToRAMRatio
      BY <3>2 DEF cpuToRAMRatio
    <3>7. BrokenDown(pod)'
      <4> HIDE DEF parts
      <4>1. QED
        BY <3>2, <3>5, <3>6 DEF BrokenDown, Breakdown, ramMultiple
    <3>8. IsFinite(pod'.Cost)
      BY <3>2, <3>3
    <3>9. NodeInv'
      BY <2>0, <3>2, NodeUnchanged
    <3> HIDE DEF parts
    <3>10. QED
      BY <3>2, <3>7, <3>8, <3>9 DEF PricingInv, NodeInv
  <2>3. ASSUME NEW c \in Capacities, CapacityReported(c)
        PROVE  PricingInv'
    <3>1. NodeInv' /\ PodInv'
      BY <2>0, <2>3, NodeUnchanged, PodUnchanged DEF CapacityReported
    <3>2. QED
      BY <2>3, <3>1 DEF CapacityReported, PricingInv, NodeInv, PodInv
  <2>4. ASSUME NEW c \in {{}} \cup {{i} : i \in CachedInstances}, CacheRefreshed(c)
        PROVE  PricingInv'
    <3>1. NodeInv' /\ PodInv'
      BY <2>0, <2>4, NodeUnchanged, PodUnchanged DEF CacheRefreshed
    <3>2. QED
      BY <2>4, <3>1 DEF CacheRefreshed, PricingInv, NodeInv, PodInv
  <2>5. CASE UNCHANGED pricing
    <3>1. NodeInv' /\ PodInv'
      BY <2>0, <2>5, NodeUnchanged, PodUnchanged DEF pricing
    <3>2. QED
      BY <2>5, <3>1 DEF pricing, PricingInv, NodeInv, PodInv
  <2>6. QED
    BY <2>1, <2>2, <2>3, <2>4, <2>5 DEF PricingNext
<1>3. QED
  BY <1>1, <1>2, PTL DEF PricingSpec

(* What is emitted of an answer of the provider. *)
LEMMA EmittedType ==
  ASSUME ConfiguredPrices, NEW n, ByDefault(n) \/ BrokenDown(n)
  PROVE  /\ n.Cpu \in FiniteNumbers /\ n.Ram \in FiniteNumbers
         /\ Or(n.Cpu, Number(1)) = n.Cpu /\ Or(n.Ram, Zero) = n.Ram
         /\ Parsed(n.CpuHourlyCost) = n.CpuHourlyCost
         /\ n.CpuHourlyCost \in Numbers /\ Parsed(n.RamGBHourlyCost) \in Numbers
         /\ Emitted(n).cpu \in Numbers
         /\ IsFinite(cfg.cpu) => IsFinite(Emitted(n).cpu)
         /\ Emitted(n).ram \in FiniteNumbers
         /\ Emitted(n).total = Plus(Times(n.Cpu, Emitted(n).cpu), Times(Emitted(n).ram, n.Ram))
<1>1. n.Cpu \in FiniteNumbers /\ n.Ram \in FiniteNumbers
  <2>1. CASE ByDefault(n)
    BY <2>1 DEF ByDefault
  <2>2. CASE BrokenDown(n)
    <3>1. PICK machine \in Capacities \cup PodSpecs \cup {Unreported} : n.Ram = F(machine.ram)
      BY <2>2 DEF BrokenDown
    <3>2. machine.ram \in FiniteNumbers
      BY MachineType
    <3>3. QED
      BY <2>2, <3>1, <3>2, FType, FiniteType DEF BrokenDown
  <2>3. QED
    BY <2>1, <2>2
<1>2. Or(n.Cpu, Number(1)) = n.Cpu /\ Or(n.Ram, Zero) = n.Ram
  BY <1>1, Terms DEF Or
<1>3. /\ Parsed(n.CpuHourlyCost) = n.CpuHourlyCost
      /\ n.CpuHourlyCost \in Numbers /\ Parsed(n.RamGBHourlyCost) \in Numbers
  <2>1. CASE ByDefault(n)
    BY <2>1, ConfigurationType, NumberNotUnset DEF ByDefault
  <2>2. CASE BrokenDown(n)
    <3>1. PICK machine \in Capacities \cup PodSpecs \cup {Unreported} :
            /\ n.CpuHourlyCost = Breakdown(n.Cost, n.Cpu, machine.ram).CpuHourlyCost
            /\ n.RamGBHourlyCost = Breakdown(n.Cost, n.Cpu, machine.ram).RamGBHourlyCost
      BY <2>2 DEF BrokenDown
    <3>2. machine.ram \in Numbers /\ n.Cpu \in Numbers /\ n.Cost \in Numbers
      BY <1>1, <2>2, MachineType, FiniteType DEF BrokenDown
    <3>3. QED
      BY <3>1, <3>2, BreakdownType
  <2>3. QED
    BY <2>1, <2>2
<1> DEFINE core == n.CpuHourlyCost
           gigabyte == Parsed(n.RamGBHourlyCost)
<1>4. /\ Emitted(n).cpu = Or(core, cfg.cpu)
      /\ Emitted(n).ram = Or(Or(gigabyte, cfg.ram), Zero)
      /\ Emitted(n).total = Plus(Times(n.Cpu, Emitted(n).cpu), Times(Emitted(n).ram, n.Ram))
  BY <1>2, <1>3 DEF Emitted, RamCost
<1>5. Or(core, cfg.cpu) \in Numbers /\ (IsFinite(cfg.cpu) => IsFinite(Or(core, cfg.cpu)))
  BY <1>3, ConfigurationType DEF Or
<1>6. Or(gigabyte, cfg.ram) \in Numbers
  BY <1>3, ConfigurationType DEF Or
<1>7. Or(Or(gigabyte, cfg.ram), Zero) \in FiniteNumbers
  BY <1>6, FiniteType, OrZeroType DEF Or
<1>8. QED
  BY <1>1, <1>2, <1>3, <1>4, <1>5, <1>7

(* A scrape never meets NaN or infinity, whatever the nodes and the cloud  *)
(* say, as long as the default price of a core is a number.                *)
THEOREM ScrapesMeetNumbers == PricingSpec => []GaugesAreNumbers
<1>1. PricingInv => GaugesAreNumbers
  <2> SUFFICES ASSUME PricingInv, gauges # Unset, IsFinite(cfg.cpu)
               PROVE  \A g \in DOMAIN gauges : IsFinite(gauges[g])
    BY DEF GaugesAreNumbers
  <2>1. ConfiguredPrices /\ (ByDefault(node) \/ BrokenDown(node)) /\ gauges = Emitted(node)
    BY DEF PricingInv, ConfiguredPrices
  <2>2. /\ node.Cpu \in FiniteNumbers /\ node.Ram \in FiniteNumbers
        /\ gauges.cpu \in FiniteNumbers /\ gauges.ram \in FiniteNumbers
        /\ gauges.total = Plus(Times(node.Cpu, gauges.cpu), Times(gauges.ram, node.Ram))
    BY <2>1, EmittedType, FiniteType
  <2>3. Times(node.Cpu, gauges.cpu) \in FiniteNumbers /\ Times(gauges.ram, node.Ram) \in FiniteNumbers
    BY <2>2, TimesType, FiniteType
  <2>4. IsFinite(gauges.total) /\ IsFinite(gauges.cpu) /\ IsFinite(gauges.ram)
    BY <2>2, <2>3, PlusType, FiniteType
  <2>5. DOMAIN gauges = {"cpu", "ram", "total"}
    BY <2>1 DEF Emitted
  <2>6. QED
    BY <2>4, <2>5
<1>2. QED
  BY <1>1, PricingInvariant, PTL

(* What a number is within, whatever the margin. *)
LEMMA WithinItself ==
  ASSUME NEW x \in FiniteNumbers, NEW e \in FiniteNumbers
  PROVE  Within(x, x, e)
<1>1. x[1] \in Nat /\ x[2] \in Nat \ {0} /\ e[1] \in Nat /\ e[2] \in Nat \ {0} /\ IsFinite(x)
  BY Terms
<1>2. x[1] * x[2] - x[1] * x[2] = 0 /\ 0 * e[2] = 0
  BY <1>1
<1>3. e[1] * x[2] * x[2] \in Nat
  BY <1>1
<1>4. QED
  BY <1>1, <1>2, <1>3 DEF Within

LEMMA SlackType ==
  ASSUME NEW cpu \in FiniteNumbers, NEW ram \in FiniteNumbers, NEW cost \in FiniteNumbers
  PROVE  HalfUnit \in FiniteNumbers /\ Slack(cpu, ram, cost) \in FiniteNumbers
<1>1. 2 * Decimals \in Nat \ {0}
  BY DecimalsType
<1>2. HalfUnit \in FiniteNumbers
  BY <1>1 DEF HalfUnit, FiniteNumbers
<1>3. Plus(cpu, ram) \in FiniteNumbers /\ Plus(cost, HalfUnit) \in FiniteNumbers
  BY <1>2, PlusType, FiniteType
<1>4. Plus(Plus(cpu, ram), Plus(cost, HalfUnit)) \in FiniteNumbers
  BY <1>3, PlusType, FiniteType
<1>5. QED
  BY <1>2, <1>4, TimesType, FiniteType DEF Slack

----------------------------------------------------------------------------
(* The default price of a core may be anything but infinite, which a flag *)
(* accepts too, but which leaves nothing to break down.                    *)
NoInfinitePrice == \A c \in CustomPricings : ~IsInf(c.cpu)

(* The parts of a price, cores times the price of a core and gigabytes     *)
(* times that of a gigabyte, add up to the price within what the rounding  *)
(* of the strings they travel in can make of it.                           *)
THEOREM PartsAddUpToThePrice ==
  ASSUME NoInfinitePrice
  PROVE  PricingSpec => []PartsAddUp
<1>1. PricingInv => PartsAddUp
  <2> SUFFICES ASSUME PricingInv PROVE PartsAddUp
    OBVIOUS
  <2>1. ConfiguredPrices /\ ~IsInf(cfg.cpu)
    BY DEF PricingInv, ConfiguredPrices, NoInfinitePrice
  <2>2. ASSUME NEW n, BrokenDown(n), IsFinite(n.Cost), ~NothingToDivideBy(n)
        PROVE  LET core == n.CpuHourlyCost
                   gigabyte == Parsed(n.RamGBHourlyCost)
               IN  /\ core \in FiniteNumbers /\ gigabyte \in FiniteNumbers
                   /\ n.Cpu \in FiniteNumbers /\ n.Ram \in FiniteNumbers
                   /\ Within(Plus(Times(n.Cpu, core), Times(gigabyte, n.Ram)), n.Cost,
                             Slack(n.Cpu, n.Ram, gigabyte))
    <3>1. PICK machine \in Capacities \cup PodSpecs \cup {Unreported} :
            /\ n.Ram = F(machine.ram)
            /\ n.CpuHourlyCost = Breakdown(n.Cost, n.Cpu, machine.ram).CpuHourlyCost
            /\ n.RamGBHourlyCost = Breakdown(n.Cost, n.Cpu, machine.ram).RamGBHourlyCost
      BY <2>2 DEF BrokenDown
    <3>3. machine.ram \in FiniteNumbers
      BY MachineType
    <3>4. n.Cost \in FiniteNumbers /\ n.Cpu \in FiniteNumbers
      BY <2>2, FiniteType DEF BrokenDown
    <3>5. IF IsZero(OrZero(cfg.ram)) THEN ~IsZero(n.Cpu)
          ELSE ~IsZero(ramMultiple(n.Cpu, F(machine.ram)))
      BY <2>2, <3>1 DEF NothingToDivideBy
    <3> DEFINE price == n.Cost
               cpu == n.Cpu
               ram == machine.ram
               core == Breakdown(price, cpu, ram).CpuHourlyCost
               gigabyte == Parsed(Breakdown(price, cpu, ram).RamGBHourlyCost)
    <3>6. /\ core \in FiniteNumbers /\ gigabyte \in FiniteNumbers /\ F(ram) \in FiniteNumbers
          /\ Within(Plus(Times(cpu, core), Times(gigabyte, F(ram))), price,
                    Slack(cpu, F(ram), gigabyte))
      BY <2>1, <3>3, <3>4, <3>5, PartsOfPrice
    <3>7. n.CpuHourlyCost = core /\ Parsed(n.RamGBHourlyCost) = gigabyte /\ n.Ram = F(ram)
      BY <3>1
    <3> HIDE DEF core, gigabyte
    <3>8. QED
      BY <3>4, <3>6, <3>7
  <2>3. TotalIsPrice
    <3> SUFFICES ASSUME node # Unset, IsFinite(node.Cost), ~NothingToDivideBy(node)
                 PROVE  Within(gauges.total, node.Cost, Slack(node.Cpu, node.Ram, gauges.ram))
      BY DEF TotalIsPrice
    <3>1. (ByDefault(node) \/ BrokenDown(node)) /\ gauges = Emitted(node)
      BY DEF PricingInv
    <3>2. /\ node.Cpu \in FiniteNumbers /\ node.Ram \in FiniteNumbers
          /\ Parsed(node.CpuHourlyCost) = node.CpuHourlyCost
          /\ gauges.ram \in FiniteNumbers
          /\ gauges.total = Plus(Times(node.Cpu, gauges.cpu), Times(gauges.ram, node.Ram))
      BY <2>1, <3>1, EmittedType
    <3>3. /\ gauges.cpu = Or(node.CpuHourlyCost, cfg.cpu)
          /\ gauges.ram = Or(Or(Parsed(node.RamGBHourlyCost), cfg.ram), Zero)
      BY <3>1, <3>2 DEF Emitted, RamCost
    <3>4. CASE ByDefault(node)
      <4>1. /\ cfg.cpu \in Numbers /\ cfg.ram \in Numbers /\ node.Cpu \in Numbers /\ node.Ram \in Numbers
            /\ Parsed(cfg.ram) = cfg.ram
        BY <2>1, <3>2, ConfigurationType, NumberNotUnset, FiniteType
      <4>2. node.Cost = Plus(Times(cfg.cpu, node.Cpu), Times(cfg.ram, node.Ram))
        BY <3>4 DEF ByDefault
      <4>3. Times(cfg.cpu, node.Cpu) \in Numbers /\ Times(cfg.ram, node.Ram) \in Numbers
        BY <4>1, TimesType
      <4>4. IsFinite(Times(cfg.cpu, node.Cpu)) /\ IsFinite(Times(cfg.ram, node.Ram))
        BY <4>2, <4>3, PlusType
      <4>5. IsFinite(cfg.cpu) /\ IsFinite(cfg.ram)
        BY <4>1, <4>4, TimesType
      <4>6. gauges.cpu = cfg.cpu /\ gauges.ram = cfg.ram
        BY <3>3, <3>4, <4>1, <4>5 DEF ByDefault, Or
      <4>7. gauges.total = node.Cost
        BY <3>2, <4>1, <4>2, <4>6, TimesCommutes
      <4>8. node.Cost \in FiniteNumbers
        BY <4>2, <4>3, PlusType, FiniteType
      <4>9. QED
        BY <3>2, <4>7, <4>8, SlackType, WithinItself
    <3>5. CASE BrokenDown(node)
      <4>1. /\ IsFinite(node.CpuHourlyCost) /\ IsFinite(Parsed(node.RamGBHourlyCost))
            /\ Within(Plus(Times(node.Cpu, node.CpuHourlyCost),
                           Times(Parsed(node.RamGBHourlyCost), node.Ram)), node.Cost,
                      Slack(node.Cpu, node.Ram, Parsed(node.RamGBHourlyCost)))
        BY <2>2, <3>5, Terms
      <4>2. gauges.cpu = node.CpuHourlyCost /\ gauges.ram = Parsed(node.RamGBHourlyCost)
        BY <3>3, <4>1 DEF Or
      <4>3. QED
        BY <3>2, <4>1, <4>2
    <3>6. QED
      BY <3>1, <3>4, <3>5
  <2>4. PodPartsAddUp
    <3> SUFFICES ASSUME pod # Unset, ~NothingToDivideBy(pod)
                 PROVE  Within(Plus(Times(Parsed(pod.CpuHourlyCost), pod.Cpu),
                                    Times(Parsed(pod.RamGBHourlyCost), pod.Ram)), pod.Cost,
                               Slack(pod.Cpu, pod.Ram, Parsed(pod.RamGBHourlyCost)))
      BY DEF PodPartsAddUp
    <3>1. IsFinite(pod.Cost) /\ BrokenDown(pod)
      BY DEF PricingInv
    <3>2. /\ pod.CpuHourlyCost \in FiniteNumbers /\ pod.Cpu \in FiniteNumbers
          /\ Within(Plus(Times(pod.Cpu, pod.CpuHourlyCost),
                         Times(Parsed(pod.RamGBHourlyCost), pod.Ram)), pod.Cost,
                    Slack(pod.Cpu, pod.Ram, Parsed(pod.RamGBHourlyCost)))
      BY <2>2, <3>1
    <3>3. /\ Parsed(pod.CpuHourlyCost) = pod.CpuHourlyCost
          /\ Times(pod.CpuHourlyCost, pod.Cpu) = Times(pod.Cpu, pod.CpuHourlyCost)
      BY <3>2, Terms, NumberNotUnset, TimesCommutes
    <3>4. QED
      BY <3>2, <3>3
  <2>5. QED
    BY <2>3, <2>4 DEF PartsAddUp
<1>2. QED
  BY <1>1, PricingInvariant, PTL

(* Two prices rounded, in a ratio a to b, are in that ratio but for half a *)
(* unit of each.                                                           *)
LEMMA RoundedRatio ==
  ASSUME NEW a \in Nat, NEW b \in Nat, NEW r \in Nat, NEW k \in Nat,
         NEW g \in Nat, NEW f \in Nat, NEW q \in Nat \ {0},
         k * b = r * a, Near(g, k, q), Near(f, r, q)
  PROVE  2 * (g * b) - 2 * (f * a) <= a + b /\ 2 * (f * a) - 2 * (g * b) <= a + b
<1> DEFINE D == Decimals
           u == g * q - k * D
           v == f * q - r * D
<1>1. D \in Nat \ {0}
  BY DecimalsType
<1>2. /\ u \in Int /\ -q <= 2 * u /\ 2 * u <= q
      /\ v \in Int /\ -q <= 2 * v /\ 2 * v <= q
  BY <1>1 DEF Near
<1>3. (g * b - f * a) * q = b * u - a * v
  <2>1. (g * b - f * a) * q = b * (g * q) - a * (f * q)
    OBVIOUS
  <2>2. b * u = b * (g * q) - b * (k * D) /\ a * v = a * (f * q) - a * (r * D)
    BY <1>1
  <2>3. b * (k * D) = a * (r * D)
    <3>1. b * (k * D) = (k * b) * D /\ a * (r * D) = (r * a) * D
      BY <1>1
    <3>2. QED
      BY <3>1
  <2> DEFINE A == b * (g * q)
             B == a * (f * q)
             C == b * (k * D)
             E == a * (r * D)
             bu == b * u
             av == a * v
             Z == (g * b - f * a) * q
  <2>4. A \in Int /\ B \in Int /\ C \in Int /\ E \in Int
    BY <1>1
  <2>5. Z = A - B /\ bu = A - C /\ av = B - E /\ C = E
    BY <2>1, <2>2, <2>3
  <2> HIDE DEF A, B, C, E, bu, av, Z
  <2>6. Z = bu - av
    BY <2>4, <2>5
  <2>7. QED
    BY <2>6 DEF Z, bu, av
<1> HIDE DEF u, v
<1> DEFINE bu == b * u
           av == a * v
           d == g * b - f * a
<1>4. -(b * q) <= 2 * bu /\ 2 * bu <= b * q /\ -(a * q) <= 2 * av /\ 2 * av <= a * q
  BY <1>2, ProductsBounded
<1>5. d \in Int /\ bu \in Int /\ av \in Int /\ b * q \in Int /\ a * q \in Int /\ d * q \in Int
  BY <1>2
<1>6. d * q = bu - av
  BY <1>3
<1>7. (a + b) * q = a * q + b * q /\ (2 * d) * q = 2 * (d * q) /\ (-(2 * d)) * q = -(2 * (d * q))
  BY <1>5
<1> HIDE DEF d, bu, av
<1>8. (2 * d) * q <= (a + b) * q /\ (-(2 * d)) * q <= (a + b) * q
  BY <1>4, <1>5, <1>6, <1>7
<1>9. 2 * d <= a + b /\ -(2 * d) <= a + b
  <2>1. 2 * d \in Int /\ -(2 * d) \in Int /\ a + b \in Int
    BY <1>5
  <2>2. QED
    BY <1>8, <2>1, Cancels
<1>10. 2 * d = 2 * (g * b) - 2 * (f * a)
  BY DEF d
<1>11. g * b \in Int /\ f * a \in Int
  OBVIOUS
<1>12. QED
  BY <1>5, <1>9, <1>10, <1>11

(* Where the parts are what is configured, their ratio is. *)
LEMMA PartsOfTheRatio ==
  ASSUME ConfiguredPrices, IsFinite(cfg.cpu), IsFinite(cfg.ram), ~IsZero(cfg.ram),
         NEW price \in Numbers, NEW cpu \in FiniteNumbers, NEW ram \in FiniteNumbers
  PROVE  LET parts == Breakdown(price, cpu, ram)
             core == parts.CpuHourlyCost
             gigabyte == Parsed(parts.RamGBHourlyCost)
         IN  \/ ~IsFinite(core) /\ ~IsFinite(gigabyte)
             \/ /\ core \in FiniteNumbers /\ gigabyte \in FiniteNumbers
                /\ Within(Times(core, cfg.ram), Times(gigabyte, cfg.cpu),
                          Times(HalfUnit, Plus(cfg.cpu, cfg.ram)))
<1> DEFINE ratio == cpuToRAMRatio
           ramPrice == OrZero(Over(OrZero(price), ramMultiple(cpu, ram)))
           coreCost == Times(ramPrice, ratio)
           parts == Breakdown(price, cpu, ram)
<1>1. /\ cfg.cpu \in FiniteNumbers /\ cfg.ram \in FiniteNumbers
      /\ OrZero(cfg.cpu) = cfg.cpu /\ OrZero(cfg.ram) = cfg.ram
      /\ ~IsInf(cfg.cpu) /\ cfg.ram[1] > 0
  <2>1. cfg.cpu \in FiniteNumbers /\ cfg.ram \in FiniteNumbers
    BY ConfigurationType, FiniteType
  <2>2. QED
    BY <2>1, Terms DEF OrZero, IsNaN, IsInf, IsZero
<1>2. ratio \in FiniteNumbers
  BY <1>1, RatioIsFinite
<1>3. ratio = Over(cfg.cpu, cfg.ram)
  <2>1. Over(cfg.cpu, cfg.ram) \in FiniteNumbers
    BY <1>1, Terms, OverType, FiniteType
  <2>2. QED
    BY <1>1, <2>1, Terms DEF cpuToRAMRatio, OrZero, IsNaN
<1>4. ramPrice \in Numbers
  <2>1. cpu \in Numbers /\ ram \in Numbers
    BY FiniteType
  <2>2. ramMultiple(cpu, ram) \in Numbers /\ OrZero(price) \in Numbers
    BY <2>1, MultipleType, OrZeroType
  <2>3. QED
    BY <2>2, OverType, OrZeroType
<1>5. coreCost \in Numbers /\ (IsFinite(coreCost) <=> IsFinite(ramPrice))
  BY <1>2, <1>4, TimesType, FiniteType
<1>6. parts.CpuHourlyCost = F(coreCost) /\ Parsed(parts.RamGBHourlyCost) = F(ramPrice)
  <2>1. parts.CpuHourlyCost = F(coreCost) /\ parts.RamGBHourlyCost = F(ramPrice)
    BY <1>1 DEF Breakdown
  <2>2. QED
    BY <1>4, <2>1, FType, NumberNotUnset
<1>7. /\ F(coreCost) \in Numbers /\ F(ramPrice) \in Numbers
      /\ IsFinite(F(coreCost)) <=> IsFinite(ramPrice)
      /\ IsFinite(F(ramPrice)) <=> IsFinite(ramPrice)
  BY <1>4, <1>5, FType
<1> HIDE DEF ratio, ramPrice, coreCost, parts
<1>8. CASE ~IsFinite(ramPrice)
  BY <1>6, <1>7, <1>8 DEF parts
<1>9. CASE IsFinite(ramPrice)
  <2>1. ramPrice \in FiniteNumbers /\ coreCost \in FiniteNumbers
        /\ F(coreCost) \in FiniteNumbers /\ F(ramPrice) \in FiniteNumbers
    BY <1>4, <1>5, <1>7, <1>9, FiniteType
  <2> DEFINE x == <<cfg.cpu, cfg.ram, ratio, ramPrice, coreCost>>
  <2>2. PICK q \in Nat \ {0} : \A i \in 1..5 : \E a \in Nat : Is(x[i], a, q)
    <3>1. \A i \in 1..5 : x[i] \in FiniteNumbers
      BY <1>1, <1>2, <2>1
    <3> HIDE DEF x
    <3>2. QED
      BY <3>1, CommonDenominator
  <2>3. PICK a \in Nat, b \in Nat, t \in Nat, r \in Nat, k \in Nat :
          /\ Is(cfg.cpu, a, q) /\ Is(cfg.ram, b, q) /\ Is(ratio, t, q)
          /\ Is(ramPrice, r, q) /\ Is(coreCost, k, q)
    <3>1. /\ 1 \in 1..5 /\ 2 \in 1..5 /\ 3 \in 1..5 /\ 4 \in 1..5 /\ 5 \in 1..5
          /\ x[1] = cfg.cpu /\ x[2] = cfg.ram /\ x[3] = ratio /\ x[4] = ramPrice
          /\ x[5] = coreCost
      OBVIOUS
    <3> HIDE DEF x
    <3>2. QED
      BY <2>2, <3>1
  <2>4. t * b = a * q
    <3>1. Is(Over(cfg.cpu, cfg.ram), t, q)
      BY <1>3, <2>3
    <3> DEFINE y == cfg.ram
               z == cfg.cpu
    <3>2. /\ z \in FiniteNumbers /\ y \in FiniteNumbers /\ y[1] > 0
          /\ Is(z, a, q) /\ Is(y, b, q) /\ Is(Over(z, y), t, q)
          /\ a \in Int /\ b \in Int /\ t \in Int /\ q \in Nat \ {0}
      BY <1>1, <2>3, <3>1
    <3> HIDE DEF y, z
    <3>3. QED
      BY <3>2, OverTimes
  <2>5. k * q = r * t
    <3>1. /\ Is(ramPrice, r, q) /\ Is(ratio, t, q) /\ Is(Times(ramPrice, ratio), k, q)
          /\ r \in Int /\ t \in Int /\ k \in Int /\ q \in Nat \ {0}
      BY <2>3 DEF coreCost
    <3>2. Is(Times(ramPrice, ratio), r * t, q * q) /\ Is(Times(ramPrice, ratio), k * q, q * q)
      BY <3>1, TimesIs, IsScaled
    <3>3. q * q \in Nat \ {0} /\ r * t \in Int /\ k * q \in Int
      BY Products
    <3>4. QED
      BY <3>2, <3>3, IsUnique
  <2>6. k * b = r * a
    <3>1. (k * b) * q = (k * q) * b /\ (r * t) * b = r * (t * b) /\ r * (a * q) = (r * a) * q
      OBVIOUS
    <3>2. k * b \in Int /\ r * a \in Int /\ (k * b) * q = (r * a) * q
      BY <2>4, <2>5, <3>1
    <3>3. QED
      BY <3>2, Cancels
  <2>7. PICK g \in Nat : Is(F(coreCost), g, Decimals) /\ Near(g, k, q)
    BY <2>3, RoundedOver
  <2>8. PICK f \in Nat : Is(F(ramPrice), f, Decimals) /\ Near(f, r, q)
    BY <2>3, RoundedOver
  <2>9. 2 * (g * b) - 2 * (f * a) <= a + b /\ 2 * (f * a) - 2 * (g * b) <= a + b
    BY <2>6, <2>7, <2>8, RoundedRatio
  <2> DEFINE D == Decimals
             N == (2 * D) * q
             left == Times(F(coreCost), cfg.ram)
             right == Times(F(ramPrice), cfg.cpu)
             margin == Times(HalfUnit, Plus(cfg.cpu, cfg.ram))
  <2>10. D \in Nat \ {0} /\ D * q \in Nat \ {0} /\ 2 * D \in Nat \ {0} /\ N \in Nat \ {0}
         /\ (D * q) * 2 = N
    BY DecimalsType, Products
  <2>11. g * b \in Int /\ f * a \in Int /\ a + b \in Int
    OBVIOUS
  <2>12. Is(left, (g * b) * 2, N) /\ Is(right, (f * a) * 2, N)
    <3>1. Is(left, g * b, D * q) /\ Is(right, f * a, D * q)
      BY <2>3, <2>7, <2>8, <2>10, TimesIs
    <3> DEFINE E == D * q
               G == g * b
               A == f * a
    <3>2. /\ E \in Nat \ {0} /\ 2 \in Nat \ {0} /\ G \in Int /\ A \in Int
          /\ Is(left, G, E) /\ Is(right, A, E)
      BY <2>10, <2>11, <3>1
    <3> HIDE DEF left, right, D, N, E, G, A
    <3>3. Is(left, G * 2, E * 2) /\ Is(right, A * 2, E * 2)
      BY <3>2, IsScaled
    <3>4. QED
      BY <2>10, <3>3 DEF E, G, A
  <2>13. Is(margin, 1 * (a + b), N)
    <3>1. Is(HalfUnit, 1, 2 * D)
      BY <2>10 DEF HalfUnit, Is, FiniteNumbers
    <3>2. Is(Plus(cfg.cpu, cfg.ram), a + b, q)
      BY <2>3, PlusIs
    <3>3. QED
      BY <2>10, <2>11, <3>1, <3>2, TimesIs
  <2> HIDE DEF left, right, margin, N
  <2>14. Within(left, right, margin)
    <3> DEFINE A == (g * b) * 2
               B == (f * a) * 2
               C == 1 * (a + b)
    <3>1. A \in Int /\ B \in Int /\ C \in Int
      OBVIOUS
    <3>2. A - B <= C /\ B - A <= C
      BY <2>9, <2>11
    <3>3. Is(left, A, N) /\ Is(right, B, N) /\ Is(margin, C, N)
      BY <2>12, <2>13
    <3> HIDE DEF A, B, C
    <3>4. QED
      BY <2>10, <3>1, <3>2, <3>3, WithinIs
  <2>15. QED
    BY <1>6, <2>1, <2>14 DEF parts, left, right, margin
<1>10. QED
  BY <1>8, <1>9

(* The gauges of a core and of a gigabyte keep the ratio of the default    *)
(* prices, within what rounding can make of it.                            *)
THEOREM PartsKeepTheRatio == PricingSpec => []PartsKeepRatio
<1>1. PricingInv => PartsKeepRatio
  <2> DEFINE margin == Times(HalfUnit, Plus(cfg.cpu, cfg.ram))
  <2> SUFFICES ASSUME PricingInv, node # Unset,
                      IsFinite(cfg.cpu), IsFinite(cfg.ram), ~IsZero(cfg.ram)
               PROVE  Within(Times(gauges.cpu, cfg.ram), Times(gauges.ram, cfg.cpu), margin)
    BY DEF PartsKeepRatio
  <2>1. ConfiguredPrices /\ (ByDefault(node) \/ BrokenDown(node)) /\ gauges = Emitted(node)
    BY DEF PricingInv, ConfiguredPrices
  <2>2. /\ gauges.cpu = Or(node.CpuHourlyCost, cfg.cpu)
        /\ gauges.ram = Or(Or(Parsed(node.RamGBHourlyCost), cfg.ram), Zero)
    BY <2>1, EmittedType DEF Emitted, RamCost
  <2>3. cfg.cpu \in FiniteNumbers /\ cfg.ram \in FiniteNumbers
    BY <2>1, ConfigurationType, FiniteType
  <2>4. cfg.cpu \in Numbers /\ cfg.ram \in Numbers
    BY <2>3, FiniteType
  <2>5. margin \in FiniteNumbers
    <3>1. HalfUnit \in FiniteNumbers
      BY <2>3, SlackType
    <3>2. Plus(cfg.cpu, cfg.ram) \in FiniteNumbers
      BY <2>3, PlusType, FiniteType
    <3>3. QED
      BY <3>1, <3>2, TimesType, FiniteType
  <2>6. ASSUME gauges.cpu = cfg.cpu, gauges.ram = cfg.ram
        PROVE  Within(Times(gauges.cpu, cfg.ram), Times(gauges.ram, cfg.cpu), margin)
    <3> HIDE DEF margin
    <3>1. Times(cfg.cpu, cfg.ram) = Times(cfg.ram, cfg.cpu) /\ Times(cfg.cpu, cfg.ram) \in FiniteNumbers
      BY <2>3, <2>4, TimesCommutes, TimesType, FiniteType
    <3>2. QED
      BY <2>5, <2>6, <3>1, WithinItself
  <2>7. CASE ByDefault(node)
    <3>1. gauges.cpu = cfg.cpu /\ gauges.ram = cfg.ram
      BY <2>2, <2>4, <2>7, NumberNotUnset DEF ByDefault, Or
    <3>2. QED
      BY <2>6, <3>1
  <2>8. CASE BrokenDown(node)
    <3>1. PICK machine \in Capacities \cup PodSpecs \cup {Unreported} :
            /\ node.CpuHourlyCost = Breakdown(node.Cost, node.Cpu, machine.ram).CpuHourlyCost
            /\ node.RamGBHourlyCost = Breakdown(node.Cost, node.Cpu, machine.ram).RamGBHourlyCost
      BY <2>8 DEF BrokenDown
    <3>2. node.Cost \in Numbers /\ node.Cpu \in FiniteNumbers /\ machine.ram \in FiniteNumbers
      BY <2>8, MachineType DEF BrokenDown
    <3> DEFINE core == node.CpuHourlyCost
               gigabyte == Parsed(node.RamGBHourlyCost)
    <3>3. \/ ~IsFinite(core) /\ ~IsFinite(gigabyte)
          \/ /\ core \in FiniteNumbers /\ gigabyte \in FiniteNumbers
             /\ Within(Times(core, cfg.ram), Times(gigabyte, cfg.cpu), margin)
      BY <2>1, <3>1, <3>2, PartsOfTheRatio
    <3> HIDE DEF core, gigabyte, margin
    <3>4. CASE ~IsFinite(core) /\ ~IsFinite(gigabyte)
      <4>1. gauges.cpu = cfg.cpu /\ gauges.ram = cfg.ram
        BY <2>2, <3>4 DEF Or, core, gigabyte
      <4>2. QED
        BY <2>6, <4>1
    <3>5. CASE /\ core \in FiniteNumbers /\ gigabyte \in FiniteNumbers
               /\ Within(Times(core, cfg.ram), Times(gigabyte, cfg.cpu), margin)
      <4>1. gauges.cpu = core /\ gauges.ram = gigabyte
        BY <2>2, <3>5, Terms DEF Or, core, gigabyte
      <4>2. QED
        BY <3>5, <4>1
    <3>6. QED
      BY <3>3, <3>4, <3>5
  <2>9. QED
    BY <2>1, <2>7, <2>8
<1>2. QED
  BY <1>1, PricingInvariant, PTL
=============================================================================
