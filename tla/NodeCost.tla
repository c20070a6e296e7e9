------------------------------ MODULE NodeCost ------------------------------
(***************************************************************************)
(* The price of one node and of one serverless pod, and how it is broken   *)
(* down into a price per core and a price per gigabyte, by the Tencent     *)
(* Cloud provider (the default provider does only what this one does for a *)
(* node it knows nothing about), and the arithmetic of the emitter.        *)
(* Prices travel as strings, printed with "%v", which keeps them, or with  *)
(* "%f", which rounds them.                                                *)
(*                                                                         *)
(* The price is that of the whole machine; cores and gigabytes are priced  *)
(* in the ratio of the configured default prices, such that together they  *)
(* make up the price.  The defaults come from flags that accept zero and   *)
(* NaN; the capacity of a node comes from its status, which is empty until *)
(* the kubelet has reported; the number of cores comes from the instance   *)
(* when the cache knows it, the memory always from the node.               *)
(***************************************************************************)
EXTENDS ExtendedNumbers

CONSTANTS
    CustomPricings,   \* the configurations, records of cpu and ram prices
    Capacities,       \* records of cores and gigabytes a node may report
    CachedInstances,  \* records of cores, charge type and prices
    PodSpecs,         \* records of the cores and gigabytes of a pod
    PodCosts,         \* the answers of the cloud to an inquiry for a pod
    Decimals          \* 10^6: the precision of "%f"

Unset == <<>>          \* an empty string
HoursPerMonth == 720   \* 30*24

Machines == [cpu : FiniteNumbers, ram : FiniteNumbers]
ASSUME NodeCostAssumption ==
    /\ CustomPricings \subseteq [cpu : Numbers, ram : Numbers]
    /\ Capacities \cup PodSpecs \subseteq Machines
    /\ CachedInstances \subseteq
         [cpu : FiniteNumbers \cup {Unset}, ram : FiniteNumbers \cup {Unset},
          chargeType : STRING, OriginalPrice : Numbers, UnitPrice : Numbers]
    /\ PodCosts \subseteq FiniteNumbers
    /\ Decimals \in Nat \ {0}

VARIABLES
    cfg,        \* the custom pricing of this run of the program
    capacity,   \* node.Status.Capacity
    cached,     \* a set of the cached instance, or empty
    node,       \* the last answer of computeNodeBreakdownCost
    gauges,     \* what the emitter has set from it
    pod         \* the last answer of ServerlessPodPrice

pricing == <<cfg, capacity, cached, node, gauges, pod>>

Unreported == [cpu |-> Zero, ram |-> Zero]

PricingInit ==
    /\ cfg \in CustomPricings
    /\ capacity = Unreported
    /\ cached = {}
    /\ node = Unset /\ gauges = Unset /\ pod = Unset

----------------------------------------------------------------------------
F(x) == Rounded(x, Decimals)
(* strconv.ParseFloat with its error ignored. *)
Parsed(s) == IF s = Unset THEN Zero ELSE s

(* A node for which the cache has no price, or a charge type that is not   *)
(* one of the three: the configured prices.                                *)
getDefaultNodePrice ==
    [Cost            |-> Plus(Times(cfg.cpu, capacity.cpu), Times(cfg.ram, capacity.ram)),
     Cpu             |-> capacity.cpu, CpuHourlyCost   |-> cfg.cpu,
     Ram             |-> capacity.ram, RamGBHourlyCost |-> cfg.ram,
     UsesDefaultPrice |-> TRUE]

(* A prepaid instance has a price for a month, the others for an hour. *)
HourlyPrice(i) ==
    IF i.chargeType = "PREPAID" THEN Over(i.OriginalPrice, Number(HoursPerMonth))
    ELSE i.UnitPrice

(* What the description of an instance leaves out is that of the node. *)
OrOfNode(x, y) == IF x = Unset THEN y ELSE x

getCloudInstancePrice(i) ==
    IF i.chargeType \in {"PREPAID", "POSTPAID_BY_HOUR", "SPOTPAID"}
    THEN [Cost            |-> HourlyPrice(i),
          Cpu             |-> OrOfNode(i.cpu, capacity.cpu), CpuHourlyCost   |-> Unset,
          Ram             |-> OrOfNode(i.ram, capacity.ram), RamGBHourlyCost |-> Unset,
          UsesDefaultPrice |-> FALSE]
    ELSE getDefaultNodePrice

\* Mutant: the ratio upside down.
RatioUpsideDown == OrZero(Over(OrZero(cfg.ram), OrZero(cfg.cpu)))
cpuToRAMRatio == OrZero(Over(OrZero(cfg.cpu), OrZero(cfg.ram)))

(* How many gigabytes cost as much as these cores and gigabytes together. *)
ramMultiple(cpu, ram) == OrZero(Plus(Times(cpu, cpuToRAMRatio), ram))

\* Mutant: a node without a price for memory is treated as the others.
NoCaseForFreeMemory(price, cpu, ram) ==
    LET ramPrice == OrZero(Over(OrZero(price), ramMultiple(cpu, ram)))
    IN  [CpuHourlyCost |-> F(Times(ramPrice, cpuToRAMRatio)),
         RamGBHourlyCost |-> F(ramPrice)]

(* The two prices.  When memory is free by default, all of the price goes  *)
(* to the cores, and the price of memory is not set.                       *)
Breakdown(price, cpu, ram) ==
    LET ramPrice == OrZero(Over(OrZero(price), ramMultiple(cpu, ram)))
    IN  IF ~IsZero(OrZero(cfg.ram))
        THEN [CpuHourlyCost |-> F(Times(ramPrice, cpuToRAMRatio)),
              RamGBHourlyCost |-> F(ramPrice)]
        ELSE [CpuHourlyCost |-> F(IF IsZero(cpu) THEN OrZero(price)
                                  ELSE Over(OrZero(price), cpu)),
              RamGBHourlyCost |-> Unset]

\* Mutant: the node keeps the memory of its instance.
KeepsRamOfInstance(p) ==
    IF p.UsesDefaultPrice THEN p
    ELSE LET parts == Breakdown(p.Cost, p.Cpu, capacity.ram)
         IN  [p EXCEPT !.Ram = F(p.Ram),
                       !.CpuHourlyCost = parts.CpuHourlyCost,
                       !.RamGBHourlyCost = parts.RamGBHourlyCost]

computeNodeBreakdownCost(p) ==
    IF p.UsesDefaultPrice THEN p
    ELSE LET parts == Breakdown(p.Cost, p.Cpu, capacity.ram)
         IN  [p EXCEPT !.Ram = F(capacity.ram),
                       !.CpuHourlyCost = parts.CpuHourlyCost,
                       !.RamGBHourlyCost = parts.RamGBHourlyCost]

(* The emitter parses the strings again and has a default for what is no   *)
(* number.                                                                 *)
Or(x, default) == IF IsFinite(x) THEN x ELSE default
\* Mutant: one default after the other for cores only.
RamOrConfigured(s) == Or(Parsed(s), cfg.ram)
RamCost(s) == Or(Or(Parsed(s), cfg.ram), Zero)
Emitted(n) ==
    LET cpuCost == Or(Parsed(n.CpuHourlyCost), cfg.cpu)
        ramCost == RamCost(n.RamGBHourlyCost)
    IN  [cpu |-> cpuCost, ram |-> ramCost,
         total |-> Plus(Times(Or(n.Cpu, Number(1)), cpuCost),
                        Times(ramCost, Or(n.Ram, Zero)))]

(* A pass of the emitter over this node. *)
Pass ==
    /\ \E p \in IF cached = {} THEN {getDefaultNodePrice}
                ELSE {getCloudInstancePrice(i) : i \in cached} :
          node' = computeNodeBreakdownCost(p)
    /\ gauges' = Emitted(node')
    /\ UNCHANGED <<cfg, capacity, cached, pod>>

(* The comparator asks for the price of a pod, which the cloud quotes in   *)
(* cents, or leaves out of its answer.                                     *)
ServerlessPodPrice(spec, cents) ==
    /\ LET cost == F(Over(cents, Number(100)))
           parts == Breakdown(cost, spec.cpu, spec.ram)
       IN  pod' = [Cost |-> cost, Cpu |-> spec.cpu, Ram |-> F(spec.ram),
                   CpuHourlyCost |-> parts.CpuHourlyCost,
                   RamGBHourlyCost |-> parts.RamGBHourlyCost]
    /\ UNCHANGED <<cfg, capacity, cached, node, gauges>>

----------------------------------------------------------------------------
(* The kubelet reports the capacity; the price cache learns or forgets. *)
CapacityReported(c) ==
    /\ capacity # c
    /\ capacity' = c
    /\ UNCHANGED <<cfg, cached, node, gauges, pod>>
CacheRefreshed(c) ==
    /\ cached # c
    /\ cached' = c
    /\ UNCHANGED <<cfg, capacity, node, gauges, pod>>

PodPriced == \E s \in PodSpecs, c \in PodCosts : ServerlessPodPrice(s, c)

PricingNext ==
    \/ Pass
    \/ PodPriced
    \/ \E c \in Capacities : CapacityReported(c)
    \/ \E c \in {{}} \cup {{i} : i \in CachedInstances} : CacheRefreshed(c)

PricingSpec == PricingInit /\ [][PricingNext]_pricing

----------------------------------------------------------------------------
(* The inductive invariant: an answer is made of the configured prices, or *)
(* broken down from a price and a size that a machine has or had, and the  *)
(* gauges show that answer, whatever has been reported since.              *)
ByDefault(n) ==
    /\ n.Cpu \in FiniteNumbers /\ n.Ram \in FiniteNumbers
    /\ n.CpuHourlyCost = cfg.cpu /\ n.RamGBHourlyCost = cfg.ram
    /\ n.Cost = Plus(Times(cfg.cpu, n.Cpu), Times(cfg.ram, n.Ram))
BrokenDown(n) ==
    /\ n.Cost \in Numbers /\ n.Cpu \in FiniteNumbers
    /\ \E machine \in Capacities \cup PodSpecs \cup {Unreported} :
         LET parts == Breakdown(n.Cost, n.Cpu, machine.ram)
         IN  /\ n.Ram = F(machine.ram)
             /\ n.CpuHourlyCost = parts.CpuHourlyCost
             /\ n.RamGBHourlyCost = parts.RamGBHourlyCost
PricingInv ==
    /\ cfg \in CustomPricings
    /\ capacity \in Capacities \cup {Unreported}
    /\ cached \subseteq CachedInstances
    /\ \/ node = Unset /\ gauges = Unset
       \/ node # Unset /\ (ByDefault(node) \/ BrokenDown(node)) /\ gauges = Emitted(node)
    /\ pod # Unset => IsFinite(pod.Cost) /\ BrokenDown(pod)

(* How far the sum of cores and gigabytes at prices that were rounded may  *)
(* be from the price they were broken down from: half a unit of the last   *)
(* decimal for each core, for each gigabyte, and for the gigabytes         *)
(* themselves, and what the errors of the last two make together.          *)
HalfUnit == <<1, 2 * Decimals>>
Slack(cpu, ram, ramCost) == Times(HalfUnit, Plus(Plus(cpu, ram), Plus(ramCost, HalfUnit)))

(* Where there is nothing to divide by there is nothing to add up either:  *)
(* what has a price by default is what the node or the pod has none of.    *)
NothingToDivideBy(n) ==
    IF IsZero(OrZero(cfg.ram)) THEN IsZero(n.Cpu)
    ELSE IsZero(ramMultiple(n.Cpu, n.Ram))
TotalIsPrice ==
    node # Unset /\ IsFinite(node.Cost) /\ ~NothingToDivideBy(node) =>
        Within(gauges.total, node.Cost, Slack(node.Cpu, node.Ram, gauges.ram))
PodPartsAddUp ==
    pod # Unset /\ ~NothingToDivideBy(pod) =>
        Within(Plus(Times(Parsed(pod.CpuHourlyCost), pod.Cpu),
                    Times(Parsed(pod.RamGBHourlyCost), pod.Ram)),
               pod.Cost, Slack(pod.Cpu, pod.Ram, Parsed(pod.RamGBHourlyCost)))

(* The total that is exported is the price of the machine: prices per core *)
(* and per gigabyte, multiplied again with what they were divided by, add  *)
(* up to the price, whether memory, cores or both are free by default or   *)
(* not a number, and although cores are counted by the instance and memory *)
(* by the node.  The same holds for the parts of a pod, which the          *)
(* comparator shows next to its price.                                     *)
PartsAddUp == TotalIsPrice /\ PodPartsAddUp

(* The parts keep the configured ratio: a core and a gigabyte cost as much *)
(* more or less than by default, whatever the machine costs.               *)
PartsKeepRatio ==
    node # Unset /\ IsFinite(cfg.cpu) /\ IsFinite(cfg.ram) /\ ~IsZero(cfg.ram) =>
        Within(Times(gauges.cpu, cfg.ram), Times(gauges.ram, cfg.cpu),
               Times(HalfUnit, Plus(cfg.cpu, cfg.ram)))

(* A scrape never meets NaN or infinity, as long as the default price of a *)
(* core is a number: not for a price of zero, a default of zero or NaN for *)
(* memory, nor for a node that has not reported its capacity yet.          *)
GaugesAreNumbers ==
    gauges # Unset /\ IsFinite(cfg.cpu) => \A g \in DOMAIN gauges : IsFinite(gauges[g])
=============================================================================
