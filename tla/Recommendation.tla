---------------------------- MODULE Recommendation ----------------------------
(***************************************************************************)
(* Comparator.DoAnalysis: what each workload would request if requests     *)
(* followed usage, what the cluster costs as it is, and what it would cost *)
(* on serverless pods with the present and with the recommended requests.  *)
(* There are four recommendations: by percentile or maximum of the usage,  *)
(* each with and without a margin.  Every price is asked of the cloud,     *)
(* node by node, pod by pod and workload by workload, and an inquiry that  *)
(* fails counts as zero.  A report that cannot be written ends the program.*)
(*                                                                         *)
(* Before that the workloads are found, by walking up from each pod of the *)
(* cluster in turn, and their usage is fetched, by the names of pods (see  *)
(* WorkloadPods).                                                          *)
(*                                                                         *)
(* Quantities are integers in the unit the code truncates to, thousandths  *)
(* of a core and bytes.  The resources of a container are two functions,   *)
(* requests and limits, each from those of cpu and mem that are given; the *)
(* API server has seen to it that a limit comes with a request not above.  *)
(***************************************************************************)
EXTENDS Integers, FiniteSets, FiniteSetsExt, WorkloadPods

CONSTANTS
    Workloads, Containers,
    Name,              \* the name of each workload, as in WorkloadPods
    Specs,             \* the specifications workloads may have
    Usages,            \* statistics of the usage of a container, NoData included
    NoData,            \* no series was fetched, or none from which to estimate
    Margin,            \* marginFraction, as a pair of numerator and denominator
    TimeSpanSeconds,   \* --comparator-timespan-seconds
    NodePrices,        \* the hourly prices of the real nodes, a function
    ClusterPriceModel, \* what managing a cluster costs by its size, a sequence
    EKSUnit,           \* serverless pods come in multiples of this
    BestEffortPod,     \* the quantities of a pod without any request
    OfNoNumber         \* what an infinity is as an int64; below zero on amd64

Resources == {"cpu", "mem"}
Quantities == [Resources -> Nat]
Statistics == {u \in [Resources -> [percentile : Nat, max : Nat]] :
                  \A r \in Resources : u[r].percentile <= u[r].max}

(* Resources that the API server accepts. *)
Valid(c) ==
    /\ DOMAIN c.limits \subseteq DOMAIN c.requests
    /\ \A r \in DOMAIN c.requests : r \in Resources /\ c.requests[r] \in Nat
    /\ \A r \in DOMAIN c.limits : c.limits[r] \in Nat /\ c.requests[r] <= c.limits[r]

ASSUME WorkloadsAssumption ==
    /\ IsFiniteSet(Workloads) /\ \A w \in Workloads : Name[w] \in Seq(STRING)
    /\ IsFiniteSet(Containers)
ASSUME SpecsAssumption ==
    \A s \in Specs : /\ s.goodsNum \in Nat /\ s.kind # ""
                    /\ \A c \in Containers : Valid(s.containers[c])
(* Nobody is called what a controller calls the pods of others. *)
ASSUME NamesAssumption ==
    \A w, x \in Workloads, s \in Specs :
        Selected(Name[w], PodName(Name[x], s.kind)) => IsPrefix(Name[w], Name[x])
ASSUME UsagesAssumption ==
    Usages \subseteq Statistics \cup {NoData} /\ NoData \notin Statistics
ASSUME MarginAssumption ==
    Margin[1] \in Nat /\ Margin[2] \in Nat \ {0} /\ Margin[1] >= Margin[2]
ASSUME PricesAssumption ==
    /\ TimeSpanSeconds \in Nat /\ TimeSpanSeconds % 3600 = 0   \* whole hours
    /\ IsFiniteSet(DOMAIN NodePrices) /\ \A n \in DOMAIN NodePrices : NodePrices[n] \in Nat
    /\ ClusterPriceModel \in Seq([Nodes : Nat, PriceHourly : Nat]) /\ ClusterPriceModel # <<>>
    /\ EKSUnit \in Nat \ {0} /\ BestEffortPod \in Quantities

VARIABLES
    deployed,             \* kind, node, containers and replicas of each workload
    usage,                \* what the pods of each workload have used
    podsLeft,             \* the pods that initWorkloadsSpec has still to visit
    met,                  \* history: the pods for which it met a failure
    workloadsSpecCache,   \* what the pods of each workload request at present
    containersData,       \* the usage fetched for each container
    recommended,          \* the result of GetAllWorkloadRecommendedData
    originalCost,         \* what ReportOriginalCostSummary reports
    serverlessCost,       \* what ReportRawServerlessCostSummary reports
    recommendedResource,  \* what ReportRecommendedResourceSummary reports
    recommendedCost,      \* what ReportRecommendedCostSummary reports
    failed,               \* history: has a call failed?
    pc                    \* the report that is due

cluster == <<deployed, usage>>
discovery == <<podsLeft, met>>
vars == <<deployed, usage, podsLeft, met, workloadsSpecCache, containersData, recommended,
          originalCost, serverlessCost, recommendedResource, recommendedCost, failed, pc>>
reports == <<originalCost, serverlessCost, recommendedResource, recommendedCost>>

Variants == {"Recommended", "Max", "MaxRecommended", "Percentile"}
None == [x \in {} |-> {}]

(* A settled cluster: the pods that run are those that are desired. *)
PodsOf(w) == {<<w, i>> : i \in 1..deployed[w].goodsNum}

Init ==
    /\ deployed \in [Workloads -> Specs]
    /\ usage = None
    /\ podsLeft = UNION {PodsOf(w) : w \in Workloads}
    /\ met = {}
    /\ workloadsSpecCache = None
    /\ containersData = None
    /\ recommended = None
    /\ originalCost = None /\ serverlessCost = 0
    /\ recommendedResource = None /\ recommendedCost = None
    /\ failed = FALSE
    /\ pc = "init"

----------------------------------------------------------------------------
(* The estimator: percentile and maximum of a usage u of resource r, with  *)
(* the margin that the variant v puts on it, times the ratio of a limit    *)
(* to a request; truncated once, at the end.  The ratio to a request of    *)
(* zero is infinite, or not a number, and so is its product.               *)
Base(v, u) == IF v \in {"Percentile", "Recommended"} THEN u.percentile ELSE u.max
\* Mutant: the margin is taken off.
MarginOff(v) == IF v \in {"Recommended", "MaxRecommended"}
                THEN <<Margin[2], Margin[1]>> ELSE <<1, 1>>
Factor(v) == IF v \in {"Recommended", "MaxRecommended"} THEN Margin ELSE <<1, 1>>
Quantity(v, u, ratio) ==
    IF ratio[2] = 0 THEN OfNoNumber
    ELSE (Base(v, u) * Factor(v)[1] * ratio[1]) \div (Factor(v)[2] * ratio[2])

\* Mutant: the ratio upside down.
RequestPerLimit(c, r) ==
    IF "cpu" \in DOMAIN c.requests \cap DOMAIN c.limits
    THEN <<c.requests["cpu"], c.limits["cpu"]>> ELSE <<1, 1>>
(* The ratio of limit to request, for memory, too, that of the cores. *)
ReqLimRatio(c, r) ==
    IF "cpu" \in DOMAIN c.requests \cap DOMAIN c.limits
    THEN <<c.limits["cpu"], c.requests["cpu"]>> ELSE <<1, 1>>

(* A container with its recommended resources: both requests, and those    *)
(* limits that it had.  Without data it stays as it is.                    *)
Recommend(v, c, u) ==
    [requests |-> [r \in Resources |-> Quantity(v, u[r], <<1, 1>>)],
     limits   |-> [r \in DOMAIN c.limits |-> Quantity(v, u[r], ReqLimRatio(c, r))]]
RecommendedContainer(v, c, u) == IF u = NoData THEN c ELSE Recommend(v, c, u)

----------------------------------------------------------------------------
(* What a pod with such containers requests in all; a default for a pod    *)
(* that requests nothing.                                                  *)
PodRequests(containers) ==
    [r \in Resources |->
       SumFunctionOnSet([c \in Containers |-> IF r \in DOMAIN containers[c].requests
                                              THEN containers[c].requests[r] ELSE 0],
                        Containers)]
BestEffort(containers) == \A c \in Containers :
    \A q \in {containers[c].requests, containers[c].limits} :
        \A r \in DOMAIN q : q[r] <= 0

(* The service that knows the sizes of serverless pods rounds up; when it  *)
(* does not answer, the sum is taken as it is.                             *)
RoundedUp(n) == ((n + EKSUnit - 1) \div EKSUnit) * EKSUnit
Pod2EKSSpecConverter(containers, answers) ==
    IF answers THEN [r \in Resources |-> RoundedUp(PodRequests(containers)[r])]
    ELSE PodRequests(containers)

(* A pod as it is: converted only if it runs on a virtual node. *)
Pod2Spec(w, containers, answers) ==
    IF BestEffort(containers) THEN BestEffortPod
    ELSE Pod2EKSSpecConverter(containers, answers /\ w.onVirtualNode)
(* A pod as it would be: converted unless it belongs to a daemon set. *)
Pod2ServerlessSpec(w, containers, answers) ==
    IF w.kind = "DaemonSet" THEN PodRequests(containers)
    ELSE IF BestEffort(containers) THEN BestEffortPod
    ELSE Pod2EKSSpecConverter(containers, answers)

Known == DOMAIN workloadsSpecCache

(* initWorkloadsSpec takes the pods one by one, in the order of the cache. *)
Visit(p) ==
    /\ pc = "init"
    /\ p \in podsLeft
    /\ podsLeft' = podsLeft \ {p}
    /\ UNCHANGED <<cluster, containersData, recommended, reports, pc>>

(* The walk to the root owner ends at one that cannot be read. *)
OwnerLost(p) ==
    /\ Visit(p)
    /\ \E o \in ToSet(Owners(deployed[p[1]].kind)) : ~FindRootOwner(deployed[p[1]].kind, {o})
    /\ met' = met \cup {p}
    /\ failed' = TRUE
    /\ UNCHANGED workloadsSpecCache

(* The workload is known from another pod already, or it is ignored. *)
SkipPod(p) ==
    /\ Visit(p)
    /\ p[1] \in Known \/ deployed[p[1]].kind = "Job"
    /\ UNCHANGED <<workloadsSpecCache, met, failed>>

\* Mutant: the workload is not tried again.
OtherPodsSkipped(p) ==
    /\ pc = "init" /\ p \in podsLeft
    /\ podsLeft' = podsLeft \ PodsOf(p[1])
    /\ p[1] \notin Known
    /\ deployed[p[1]].kind # "Job" /\ AsksForReplicas(deployed[p[1]].kind)
    /\ met' = met \cup {p}
    /\ failed' = (failed \/ HasReplicas(deployed[p[1]].kind))
    /\ UNCHANGED <<cluster, workloadsSpecCache, containersData, recommended, reports, pc>>
(* The replicas are not answered, as they never are for a pod of its own;  *)
(* another pod of the workload may do.                                     *)
ReplicasLost(p) ==
    /\ Visit(p)
    /\ p[1] \notin Known
    /\ deployed[p[1]].kind # "Job" /\ AsksForReplicas(deployed[p[1]].kind)
    /\ met' = met \cup {p}
    /\ failed' = (failed \/ HasReplicas(deployed[p[1]].kind))
    /\ UNCHANGED workloadsSpecCache

(* The workload is recorded, with what this pod requests, which the cloud  *)
(* may fail to convert.                                                    *)
RecordWorkload(p, converts) ==
    /\ Visit(p)
    /\ LET w == p[1]
           podSpec == Pod2Spec(deployed[w], deployed[w].containers, converts)
       IN  /\ w \notin Known
           /\ deployed[w].kind # "Job"
           /\ AsksForReplicas(deployed[w].kind) => HasReplicas(deployed[w].kind)
           /\ workloadsSpecCache' = [x \in Known \cup {w} |->
                                        IF x = w THEN podSpec ELSE workloadsSpecCache[x]]
    /\ failed' = (failed \/ ~converts)
    /\ UNCHANGED met

WorkloadsKnown ==
    /\ pc = "init"
    /\ podsLeft = {}
    /\ pc' = "fetch"
    /\ UNCHANGED <<cluster, discovery, workloadsSpecCache, containersData, recommended,
                   reports, failed>>

initWorkloadsSpec ==
    \/ \E p \in podsLeft : \/ OwnerLost(p) \/ SkipPod(p) \/ ReplicasLost(p)
                           \/ \E converts \in BOOLEAN : RecordWorkload(p, converts)
    \/ WorkloadsKnown

\* Mutant: the query asks for pods of that very name.
OfThatName(w) ==
    {x \in Workloads : PodsOf(x) # {} /\ PodName(Name[x], deployed[x].kind) = Name[w]}
(* The workloads whose pods the query for workload w selects, and the sets *)
(* of statistics that their series may have together: the greatest maximum, *)
(* and a percentile that may be that of any of them.                       *)
SelectedWorkloads(w) ==
    {x \in Workloads : PodsOf(x) # {} /\
        Selected(Name[w], PodName(Name[x], deployed[x].kind))}
\* Mutant: only the series of some of them are looked at.
MergeOne(stats) == IF stats = {} THEN {NoData} ELSE stats
MergeTimeSeriesList(stats) ==
    IF stats = {} THEN {NoData}
    ELSE {[r \in Resources |-> [percentile |-> s[r].percentile,
                                max |-> Max({t[r].max : t \in stats})]] : s \in stats}

MergedUsages == UNION {MergeTimeSeriesList(S) : S \in SUBSET (Usages \ {NoData})}

(* The usage is fetched for each container of each known workload, except  *)
(* for those of which a query fails.  What all the pods have used is first *)
(* looked at here.                                                         *)
fetchContainerData(used, lost) ==
    /\ pc = "fetch"
    /\ pc' = "recommend"
    /\ usage' = used
    /\ containersData' \in
         {data \in [Known -> [Containers -> MergedUsages]] : \A w \in Known, c \in Containers :
            data[w][c] \in MergeTimeSeriesList(
                IF <<w, c>> \in lost THEN {}
                ELSE {used[x][c] : x \in SelectedWorkloads(w)} \ {NoData})}
    /\ met' = {}   \* the history ends
    /\ failed' = (failed \/ lost # {})
    /\ UNCHANGED <<deployed, podsLeft, workloadsSpecCache, recommended, reports>>

GetAllWorkloadRecommendedData(unconverted) ==
    /\ pc = "recommend"
    /\ pc' = "original"
    /\ recommended' =
         [w \in Known |-> [v \in Variants |->
            LET containers == [c \in Containers |->
                    RecommendedContainer(v, deployed[w].containers[c],
                                         containersData[w][c])]
            IN  [containers |-> containers,
                 spec |-> Pod2ServerlessSpec(deployed[w], containers,
                                             <<w, v>> \notin unconverted)]]]
    /\ failed' = (failed \/ unconverted # {})
    /\ UNCHANGED <<cluster, discovery, workloadsSpecCache, containersData, reports>>

----------------------------------------------------------------------------
(* The tariff of the cloud for an hour, in proportion to what is ordered.  *)
ServerlessPodPrice(spec, goodsNum) == goodsNum * (spec["cpu"] + spec["mem"])

timespanInHour == TimeSpanSeconds \div 3600

(* Managing a cluster has a price that depends on its real nodes; managing *)
(* serverless pods is free.                                                *)
PlatformCost(nodes) ==
    LET fitting == {i \in DOMAIN ClusterPriceModel : nodes <= ClusterPriceModel[i].Nodes}
    IN  ClusterPriceModel[IF fitting = {} THEN Len(ClusterPriceModel)
                          ELSE Min(fitting)].PriceHourly

\* Mutant: the pods of a workload are counted once.
OnePodEach(w) == 1
Pods(w) == Cardinality(PodsOf(w))

(* The original coster: real nodes, and the pods on virtual nodes, which   *)
(* are described anew.                                                     *)
OriginalCost(unconverted, failing) ==
    [ServerfulCost  |-> SumFunctionOnSet([n \in DOMAIN NodePrices |->
                                             NodePrices[n] * timespanInHour],
                                         DOMAIN NodePrices \ failing),
     ServerlessCost |-> SumFunctionOnSet([w \in Workloads |-> Pods(w) * timespanInHour *
        ServerlessPodPrice(Pod2Spec(deployed[w], deployed[w].containers,
                                    w \notin unconverted), 1)],
        {w \in Workloads \ failing : deployed[w].onVirtualNode}),
     PlatformCost   |-> PlatformCost(Cardinality(DOMAIN NodePrices))]
ReportOriginalCostSummary(unconverted, failing) ==
    /\ pc = "original"
    /\ pc' = "serverless"
    /\ originalCost' = OriginalCost(unconverted, failing)
    /\ failed' = (failed \/ unconverted \cup failing # {})
    /\ UNCHANGED <<cluster, discovery, workloadsSpecCache, containersData, recommended,
                   serverlessCost, recommendedResource, recommendedCost>>

(* Daemon sets have no place on serverless pods. *)
Movable == {w \in Known : deployed[w].kind # "DaemonSet"}
TotalCost(cost) == SumFunctionOnSet(cost, Movable)

(* The serverless coster: present requests, the time span once. *)
RawServerlessCost(failing) ==
    TotalCost([w \in Movable |->
       IF w \in failing THEN 0
       ELSE ServerlessPodPrice(workloadsSpecCache[w], deployed[w].goodsNum) * timespanInHour])
ReportRawServerlessCostSummary(failing) ==
    /\ pc = "serverless"
    /\ pc' = "resources"
    /\ serverlessCost' = RawServerlessCost(failing)
    /\ failed' = (failed \/ failing # {})
    /\ UNCHANGED <<cluster, discovery, workloadsSpecCache, containersData, recommended,
                   originalCost, recommendedResource, recommendedCost>>

(* The resources of one pod of each workload, with the default variant. *)
ServerlessWorkloadsResourceTotal ==
    [r \in Resources |->
       TotalCost([w \in Movable |-> recommended[w]["Recommended"].spec[r]])]
ReportRecommendedResourceSummary ==
    /\ pc = "resources"
    /\ pc' = "recommended"
    /\ recommendedResource' = ServerlessWorkloadsResourceTotal
    /\ UNCHANGED <<cluster, discovery, workloadsSpecCache, containersData, recommended,
                   originalCost, serverlessCost, recommendedCost, failed>>

\* Mutant: the replicas are those of the converted pod.
OfOneReplica(spec, goodsNum) == ServerlessPodPrice(spec, 1) * timespanInHour
(* The recommender coster: workloadCosting multiplies with the time span,  *)
(* and TotalCost once more.                                                *)
workloadCosting(spec, goodsNum) == ServerlessPodPrice(spec, goodsNum) * timespanInHour

RecommendedCost(failing) ==
    [v \in Variants |-> TotalCost([w \in Movable |->
       IF <<w, v>> \in failing THEN 0
       ELSE workloadCosting(recommended[w][v].spec, deployed[w].goodsNum) * timespanInHour])]
ReportRecommendedCostSummary(failing) ==
    /\ pc = "recommended"
    /\ pc' = "done"
    /\ recommendedCost' = RecommendedCost(failing)
    /\ failed' = (failed \/ failing # {})
    /\ UNCHANGED <<cluster, discovery, workloadsSpecCache, containersData, recommended,
                   originalCost, serverlessCost, recommendedResource>>

(* A report that was printed cannot be written to its file. *)
FileFails ==
    /\ pc \in {"original", "serverless", "resources", "recommended", "done"}
    /\ pc' = "exited"
    /\ UNCHANGED <<cluster, discovery, workloadsSpecCache, containersData, recommended,
                   reports, failed>>

(* At most one call of an analysis fails: enough to tell them apart.       *)
AtMostOne(S) == {{}} \cup (IF failed THEN {} ELSE {{x} : x \in S})
DoAnalysis ==
    \/ initWorkloadsSpec
    \/ \E used \in [Workloads -> [Containers -> Usages]], l \in AtMostOne(Known \X Containers) :
          fetchContainerData(used, l)
    \/ \E u \in AtMostOne(Known \X Variants) : GetAllWorkloadRecommendedData(u)
    \/ \E u \in AtMostOne(Workloads), f \in AtMostOne(Workloads \cup DOMAIN NodePrices) :
          ReportOriginalCostSummary(u, f)
    \/ \E f \in AtMostOne(Known) : ReportRawServerlessCostSummary(f)
    \/ ReportRecommendedResourceSummary
    \/ \E f \in AtMostOne(Known \X Variants) : ReportRecommendedCostSummary(f)
    \/ FileFails

Spec == Init /\ [][DoAnalysis]_vars

----------------------------------------------------------------------------
Typed ==
    /\ deployed \in [Workloads -> Specs]
    /\ Known \subseteq Workloads
    /\ podsLeft \cup met \subseteq UNION {PodsOf(w) : w \in Workloads}
    /\ failed \in BOOLEAN
    /\ pc \in {"init", "fetch", "recommend", "original", "serverless", "resources",
              "recommended", "done", "exited"}

(* A workload that is not known has no pods but those that are still to    *)
(* visit and those that met a failure.                                     *)
Finding == pc \in {"init", "fetch"}
PodsAccounted == Finding =>
    /\ \A w \in Workloads \ Known :
         deployed[w].kind = "Job" \/ PodsOf(w) \subseteq podsLeft \cup met
    /\ \A w \in Workloads :
         PodsOf(w) \cap met # {} => failed \/ deployed[w].kind = "Pod"
    /\ pc = "fetch" => podsLeft = {}
KnownByPods == \A w \in Known : PodsOf(w) # {}

\* No other workload's name begins with that of w.
Alone(w) == \A x \in Workloads \ {w} : ~IsPrefix(Name[w], Name[x])
(* What was fetched of a container covers what it has used. *)
Covers(w, fetched, used) ==
    used # NoData =>
        /\ failed \/ fetched # NoData
        /\ fetched # NoData => \A r \in Resources :
              /\ fetched[r].max >= used[r].max
              /\ Alone(w) => fetched[r].max = used[r].max
HasPercentileOf(d, u) == \A r \in Resources : d[r].percentile = u[r].percentile
DataCovers == ~Finding => \A w \in Known, c \in Containers :
    /\ containersData[w][c] \in Statistics \cup {NoData}
    /\ containersData[w][c] # NoData =>
         \E u \in Usages \ {NoData} : HasPercentileOf(containersData[w][c], u)
    /\ Covers(w, containersData[w][c], usage[w][c])
FollowsData ==
    /\ DOMAIN recommended # {} => ~Finding
    /\ \A w \in DOMAIN recommended : w \in Known /\ \A v \in Variants, c \in Containers :
         recommended[w][v].containers[c]
            = RecommendedContainer(v, deployed[w].containers[c], containersData[w][c])

FoundInv == Typed /\ PodsAccounted /\ KnownByPods /\ DataCovers /\ FollowsData

\* Nothing the reports are made of is negative or missing.
CostsAreNumbers ==
    /\ \A w \in Known : workloadsSpecCache[w] \in Quantities
    /\ \A w \in DOMAIN recommended, v \in Variants : recommended[w][v].spec \in Quantities
    /\ originalCost = None
       \/ originalCost \in [{"ServerfulCost", "ServerlessCost", "PlatformCost"} -> Nat]
    /\ serverlessCost \in Nat
    /\ recommendedResource \in {None} \cup Quantities
    /\ recommendedCost = None \/ recommendedCost \in [Variants -> Nat]
(* Unless a call failed, pods are described by what they request, and each *)
(* report that was made is the one that the state makes.                   *)
SpecsFollow ==
    /\ \A w \in Known :
         workloadsSpecCache[w] = Pod2Spec(deployed[w], deployed[w].containers, TRUE)
    /\ \A w \in DOMAIN recommended, v \in Variants :
         LET is == recommended[w][v]
         IN  is.spec = Pod2ServerlessSpec(deployed[w], is.containers, TRUE)
CostsFollow ==
    /\ pc \in {"serverless", "resources", "recommended", "done"} =>
         originalCost = OriginalCost({}, {})
    /\ pc \in {"resources", "recommended", "done"} => serverlessCost = RawServerlessCost({})
    /\ pc = "done" => recommendedCost = RecommendedCost({})
OnlyEmptyUnknown == \A w \in Workloads \ Known :
    pc = "init" \/ deployed[w].kind \in {"Job", "Pod"} \/ PodsOf(w) = {}
CostInv ==
    /\ CostsAreNumbers
    /\ Finding \/ pc = "recommend" \/ DOMAIN recommended = Known
    /\ ~failed => SpecsFollow /\ CostsFollow /\ OnlyEmptyUnknown

(* The inductive invariant, the types included: each pod of an analysis is *)
(* still to visit, recorded or accounted for, what was fetched by name for *)
(* a container covers what its own pods used, what is recommended follows  *)
(* what was fetched, and the reports follow both.                          *)
IInv == FoundInv /\ CostInv

(* No workload is missing from the reports without a reason: one that is   *)
(* neither a job nor recorded is one for which each single pod met a       *)
(* failure, of its own; one pod that goes well is enough.  And without     *)
(* failed calls it is those pods only that have no owner, and workloads    *)
(* scaled to zero.                                                         *)
NobodyForgotten ==
    pc = "fetch" => \A w \in Workloads \ Known :
        \/ deployed[w].kind = "Job"
        \/ /\ PodsOf(w) \subseteq met
           /\ failed \/ deployed[w].kind = "Pod" \/ PodsOf(w) = {}

(* A recommendation by maximum covers what the workload's own pods have    *)
(* used, although usage is looked up by name: the pods of others whose     *)
(* names begin alike can only raise it, and where there are none it is the *)
(* maximum itself.  If nothing failed, nobody who used something is left   *)
(* as it was.                                                              *)
CoversOwnUsage ==
    \A w \in DOMAIN recommended, c \in Containers :
        usage[w][c] # NoData =>
            /\ failed \/ containersData[w][c] # NoData
            /\ containersData[w][c] # NoData => \A r \in Resources :
                 LET request == recommended[w]["Max"].containers[c].requests[r]
                 IN  /\ request >= usage[w][c][r].max
                     /\ Alone(w) => request = usage[w][c][r].max

(* What is recommended can be deployed: no container is given a request    *)
(* above its limit, which the API server would refuse.  Requests and       *)
(* limits are computed and truncated apart, the limits of memory by the    *)
(* ratio of those of cores.  The exception is a container whose cores have *)
(* a limit and a request of zero: the ratio does not exist, and its limits *)
(* are whatever an infinity is converted to.                               *)
HasNoRatio(c) ==
    "cpu" \in DOMAIN c.requests \cap DOMAIN c.limits /\ c.requests["cpu"] = 0
RequestsWithinLimits ==
    \A w \in DOMAIN recommended, v \in Variants, c \in Containers :
        LET is == recommended[w][v].containers[c]
        IN  HasNoRatio(deployed[w].containers[c])
            \/ \A r \in DOMAIN is.limits : is.requests[r] <= is.limits[r]

(* The four recommendations are in order in the report, from bold to safe: *)
(* percentile, with margin or maximum, maximum with margin; whatever is    *)
(* rounded, not known, or replaced by a default, unless an inquiry failed. *)
CostsOrdered ==
    pc = "done" /\ ~failed =>
        \A v \in {"Recommended", "Max"} :
            /\ recommendedCost["Percentile"] <= recommendedCost[v]
            /\ recommendedCost[v] <= recommendedCost["MaxRecommended"]

(* A cost is a price times the time span, in each report: a recommendation *)
(* that changes nothing costs what the present requests cost.              *)
SameRequestsSameCost ==
    pc = "done" /\ ~failed =>
        \A v \in Variants :
            (\A w \in DOMAIN recommended :
                recommended[w][v].spec = workloadsSpecCache[w])
            => recommendedCost[v] = serverlessCost

(* Who is on serverless pods already gains and loses nothing by moving     *)
(* there: a workload costs the same whether it is counted pod by pod, or   *)
(* once with its replicas, although the two counts describe and convert    *)
(* its pods at different times.                                            *)
AllServerless == \A w \in Workloads :
    deployed[w].onVirtualNode /\ deployed[w].kind = "Deployment"
MovingNowhereIsFree ==
    pc = "resources" /\ ~failed /\ AllServerless =>
        originalCost["ServerlessCost"] = serverlessCost
=============================================================================
