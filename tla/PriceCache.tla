----------------------------- MODULE PriceCache -----------------------------
(***************************************************************************)
(* The cache of instance prices of the Tencent Cloud provider,             *)
(* pkg/cloudproviders/qcloud/price_cache.go.  One goroutine fills it: it   *)
(* runs WarmUp at the start of the program and Refresh for ever after.     *)
(* Both read the list of nodes, ask the cloud for the instances behind     *)
(* them and for the price of each instance, and only then take             *)
(* instanceLock and change the map.  Meanwhile nodes come and go,          *)
(* instances change their configuration, and the tariff changes.           *)
(*                                                                         *)
(* A node stands for the id of its instance, what ParseID makes of its     *)
(* ProviderID.  A node without an id (a virtual node) is skipped by the    *)
(* code and not part of the model.  An offer is what determines a price:   *)
(* the zone, instance type and charge type of an instance.                 *)
(*                                                                         *)
(* The cloud's API is the environment.  During an outage a call may fail   *)
(* in spite of its retries; otherwise only a call that names an instance   *)
(* that no longer exists may.                                              *)
(***************************************************************************)
EXTENDS Naturals, FiniteSets

CONSTANTS
    Instances,      \* the ids of the instances there may ever be
    Offers,         \* the configurations an instance may have
    Prices,         \* the prices an offer may have
    DefaultLimit,   \* instances per DescribeInstances request
    MaxChurn        \* bound on the changes of the environment

ASSUME PriceCacheAssumption ==
    /\ IsFiniteSet(Instances)
    /\ DefaultLimit \in Nat \ {0}
    /\ MaxChurn \in Nat

VARIABLES
    nodes,        \* the instances behind the nodes the informer lists
    configOf,     \* the cloud: the configuration of each existing instance
    tariff,       \* the cloud: the price of each offer
    outage,       \* does the API fail?
    churn,        \* how often the environment has changed
    pc,           \* where the goroutine is
    warm,         \* has WarmUp succeeded?
    nodeIds,      \* nodes as they were when the round started
    toDescribe,   \* the ids whose batch has not been requested
    described,    \* the instances that GetCVMInstances has gathered
    toPrice,      \* those whose price has not been inquired
    insPrices,    \* what GetCVMInstancesPrice has gathered
    instances,    \* the cache, by id
    since         \* history: the facts of the cloud since the round started

cloud == <<nodes, configOf, tariff, outage, churn>>
round == <<nodeIds, toDescribe, described, toPrice, insPrices>>  \* locals of a round
vars == <<nodes, configOf, tariff, outage, churn, pc, warm, nodeIds, toDescribe,
          described, toPrice, insPrices, instances, since>>

Nothing == [i \in {} |-> {}]
NoFacts == [configs |-> {}, prices |-> {}]
Without(f, i) == [j \in DOMAIN f \ {i} |-> f[j]]
With(f, i, v) == [j \in DOMAIN f \cup {i} |-> IF j = i THEN v ELSE f[j]]

(* The facts about the cloud that hold now. *)
Facts == [configs |-> {<<i, configOf[i]>> : i \in DOMAIN configOf},
          prices  |-> {<<o, tariff[o]>> : o \in Offers}]
Together(f, g) == [configs |-> f.configs \cup g.configs,
                   prices  |-> f.prices \cup g.prices]

Init ==
    /\ configOf \in [Instances -> Offers]
    /\ tariff \in [Offers -> Prices]
    /\ nodes \in SUBSET Instances
    /\ outage \in BOOLEAN
    /\ churn = 0
    /\ pc = "idle"
    /\ warm = FALSE
    /\ nodeIds = {} /\ toDescribe = {} /\ described = Nothing
    /\ toPrice = {} /\ insPrices = Nothing
    /\ instances = Nothing
    /\ since = NoFacts

----------------------------------------------------------------------------
(* A round is over: its local variables go out of scope. *)
RoundEnds ==
    /\ nodeIds' = {}
    /\ toDescribe' = {} /\ described' = Nothing
    /\ toPrice' = {} /\ insPrices' = Nothing
    /\ since' = NoFacts

(* WarmUp ends the program when it fails; Refresh leaves it at a log line  *)
(* and is called again half an hour later.                                 *)
RoundFails ==
    /\ pc' = IF warm THEN "idle" ELSE "exited"
    /\ RoundEnds
    /\ UNCHANGED <<warm, instances>>

(* WarmUp or Refresh starts with the list of nodes. *)
StartRound ==
    /\ pc = "idle"
    /\ pc' = "standard"
    /\ nodeIds' = nodes
    /\ since' = Facts
    /\ UNCHANGED <<cloud, warm, toDescribe, described, toPrice, insPrices, instances>>

(* refreshPricingCache: the standard prices, which nothing reads; but a    *)
(* failure ends the round.                                                 *)
refreshPricingCache(ok) ==
    /\ pc = "standard"
    /\ ok \/ outage
    /\ IF ok THEN /\ pc' = "describe"
                  /\ toDescribe' = nodeIds
                  /\ UNCHANGED <<warm, nodeIds, described, toPrice, insPrices,
                                 instances, since>>
             ELSE RoundFails
    /\ UNCHANGED cloud

(* GetCVMInstances, one batch: the lister has no order of its own, so any  *)
(* ids may come first.  An id that names no instance either fails the      *)
(* batch, and with it the round, or is left out of the answer.             *)
IsBatch(b) == Cardinality(b) = IF Cardinality(toDescribe) < DefaultLimit
                               THEN Cardinality(toDescribe) ELSE DefaultLimit
SameBatch(b) == toDescribe      \* mutant: the loop does not advance
Remaining(b) == toDescribe \ b
GetCVMInstances(b, ok) ==
    /\ pc = "describe"
    /\ toDescribe # {}
    /\ IsBatch(b)
    /\ ok \/ outage \/ ~(b \subseteq DOMAIN configOf)
    /\ IF ok THEN /\ toDescribe' = Remaining(b)
                  /\ described' = [i \in DOMAIN described \cup (b \cap DOMAIN configOf) |->
                                     IF i \in b THEN configOf[i] ELSE described[i]]
                  /\ UNCHANGED <<pc, warm, nodeIds, toPrice, insPrices, instances, since>>
             ELSE RoundFails
    /\ UNCHANGED cloud

(* All batches are there, and GetCVMInstancesPrice gets itself a client,   *)
(* or fails to.                                                            *)
AllDescribed(ok) ==
    /\ pc = "describe"
    /\ toDescribe = {}
    /\ ok \/ outage
    /\ IF ok THEN /\ pc' = "price"
                  /\ toPrice' = DOMAIN described
                  /\ UNCHANGED <<warm, nodeIds, toDescribe, described, insPrices,
                                 instances, since>>
             ELSE RoundFails
    /\ UNCHANGED cloud

\* Mutant: the price is looked up for what the instance is by now.
PriceOfPresentOffer(i) == tariff[IF i \in DOMAIN configOf THEN configOf[i]
                                 ELSE described[i]]

(* The price of the offer the instance was found with. *)
InquiredPrice(i) == tariff[described[i]]

(* GetCVMInstancesPrice, one instance: a failed inquiry is skipped, and so *)
(* is an answer without a price, which counts as an outage here.           *)
GetCVMInstancesPrice(i, ok) ==
    /\ pc = "price"
    /\ i \in toPrice
    /\ ok \/ outage
    /\ toPrice' = toPrice \ {i}
    /\ insPrices' = IF ok THEN With(insPrices, i, [offer |-> described[i],
                                                   price |-> InquiredPrice(i)])
                          ELSE insPrices
    /\ UNCHANGED <<cloud, pc, warm, nodeIds, toDescribe, described, instances, since>>

\* Mutant: the fresh prices replace the cache.
ReplaceAll(cache, fresh, listed) == fresh
\* Mutant: what is listed no more stays.
NeverEvict(cache, fresh, listed) ==
    [i \in DOMAIN cache \cup DOMAIN fresh |->
        IF i \in DOMAIN fresh THEN fresh[i] ELSE cache[i]]

(* Fresh prices overwrite, and what the list of nodes does not name goes. *)
UpsertAndEvict(cache, fresh, listed) ==
    [i \in (DOMAIN cache \cup DOMAIN fresh) \cap listed |->
        IF i \in DOMAIN fresh THEN fresh[i] ELSE cache[i]]

(* The critical section under instanceLock. *)
refreshInstancePricingCache ==
    /\ pc = "price"
    /\ toPrice = {}
    /\ pc' = "idle"
    /\ warm' = TRUE
    /\ instances' = UpsertAndEvict(instances, insPrices, nodeIds)
    /\ RoundEnds
    /\ UNCHANGED cloud

Refresher ==
    \/ StartRound
    \/ \E ok \in BOOLEAN : refreshPricingCache(ok)
    \/ \E b \in SUBSET toDescribe, ok \in BOOLEAN : GetCVMInstances(b, ok)
    \/ \E ok \in BOOLEAN : AllDescribed(ok)
    \/ \E i \in toPrice, ok \in BOOLEAN : GetCVMInstancesPrice(i, ok)
    \/ refreshInstancePricingCache

----------------------------------------------------------------------------
(* What the goroutine does not control. *)
Changes ==
    /\ churn < MaxChurn
    /\ churn' = churn + 1
    /\ since' = IF pc \in {"idle", "exited"} THEN NoFacts
                ELSE Together(since, Facts')
    /\ UNCHANGED <<pc, warm, round, instances>>

NodeJoins(i) ==
    /\ i \in DOMAIN configOf \ nodes
    /\ nodes' = nodes \cup {i}
    /\ UNCHANGED <<configOf, tariff, outage>>
    /\ Changes
InstanceTerminated(i) ==
    /\ i \in DOMAIN configOf
    /\ configOf' = Without(configOf, i)
    /\ UNCHANGED <<nodes, tariff, outage>>
    /\ Changes
InstanceModified(i, o) ==
    /\ i \in DOMAIN configOf
    /\ configOf[i] # o
    /\ configOf' = [configOf EXCEPT ![i] = o]
    /\ UNCHANGED <<nodes, tariff, outage>>
    /\ Changes
OfferRepriced(o, p) ==
    /\ tariff[o] # p
    /\ tariff' = [tariff EXCEPT ![o] = p]
    /\ UNCHANGED <<nodes, configOf, outage>>
    /\ Changes
OutageStarts ==
    /\ ~outage
    /\ outage' = TRUE
    /\ UNCHANGED <<nodes, configOf, tariff>>
    /\ Changes

(* These two are owed, so that they are not counted: an outage ends, and   *)
(* the node of a terminated instance is removed from the cluster.          *)
OutageEnds ==
    /\ outage
    /\ outage' = FALSE
    /\ UNCHANGED <<nodes, configOf, tariff, churn, pc, warm, round, instances, since>>
NodeLeaves(i) ==
    /\ i \in nodes
    /\ nodes' = nodes \ {i}
    /\ UNCHANGED <<configOf, tariff, outage, churn, pc, warm, round, instances, since>>

Environment ==
    \/ \E i \in Instances : NodeJoins(i) \/ InstanceTerminated(i) \/ NodeLeaves(i)
    \/ \E i \in Instances, o \in Offers : InstanceModified(i, o)
    \/ \E o \in Offers, p \in Prices : OfferRepriced(o, p)
    \/ OutageStarts
    \/ OutageEnds

Next == Refresher \/ Environment
Spec == Init /\ [][Next]_vars

Fairness ==
    /\ WF_vars(Refresher)
    /\ WF_vars(OutageEnds)
    /\ \A i \in Instances : WF_vars(i \notin DOMAIN configOf /\ NodeLeaves(i))
FairSpec == Spec /\ Fairness

----------------------------------------------------------------------------
Entries == [offer : Offers, price : Prices]
Partial(f, D, R) == DOMAIN f \subseteq D /\ \A i \in DOMAIN f : f[i] \in R

TypeOK ==
    /\ nodes \subseteq Instances
    /\ Partial(configOf, Instances, Offers)
    /\ tariff \in [Offers -> Prices]
    /\ outage \in BOOLEAN
    /\ churn \in 0..MaxChurn
    /\ pc \in {"idle", "standard", "describe", "price", "exited"}
    /\ warm \in BOOLEAN
    /\ nodeIds \subseteq Instances
    /\ toDescribe \subseteq nodeIds
    /\ Partial(described, nodeIds \ toDescribe, Offers)
    /\ toPrice \subseteq DOMAIN described
    /\ Partial(insPrices, DOMAIN described \ toPrice, Entries)
    /\ Partial(instances, Instances, Entries)

(* Everything the cache promises to its readers, each entry being recent,  *)
(* none being lost to a failure: it goes through the rounds of PriceFeed,  *)
(* whichever calls a round is made of, whichever of them fail, and         *)
(* whatever changes between two of them.                                   *)
Feed == INSTANCE PriceFeed WITH
    round <- CASE pc = "idle" -> "none" [] pc = "exited" -> "gone" [] OTHER -> "open",
    listed <- nodeIds
ImplementsFeed == Feed!FairSpec

(* Why it does.  What a round has gathered so far is in scope only while   *)
(* it lasts; since has every fact about the cloud from its beginning on,   *)
(* the present ones included; and each thing gathered was one of them.     *)
InRound == pc \notin {"idle", "exited"}
InScope ==
    /\ ~InRound => nodeIds = {} /\ since = NoFacts
    /\ pc # "describe" => toDescribe = {}
    /\ pc \notin {"describe", "price"} => described = Nothing
    /\ pc # "price" => toPrice = {} /\ insPrices = Nothing
FactsKept ==
    /\ since \in [configs : SUBSET (Instances \X Offers), prices : SUBSET (Offers \X Prices)]
    /\ InRound => Facts.configs \subseteq since.configs /\ Facts.prices \subseteq since.prices
GatheredIsRecent ==
    /\ \A i \in DOMAIN described : <<i, described[i]>> \in since.configs
    /\ \A i \in DOMAIN insPrices : Feed!IsRecent(i, insPrices[i])
IInv == TypeOK /\ InScope /\ FactsKept /\ GatheredIsRecent

(* The cache converges: once the environment has calmed down, it holds the *)
(* present configuration and price of the instance behind every node, and  *)
(* nothing else, unless WarmUp has failed and the program is gone.         *)
Fresh == instances = [i \in nodes |-> [offer |-> configOf[i],
                                       price |-> tariff[configOf[i]]]]
Converged ==
    \/ pc = "exited"
    \/ nodes \subseteq DOMAIN configOf /\ Fresh
CacheConverges == <>[]Converged
=============================================================================
