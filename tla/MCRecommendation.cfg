CONSTANTS
    w1 = w1  w2 = w2  main = main  sidecar = sidecar  n1 = n1  n2 = n2
    NoData = NoData
    Workloads = {w1, w2}
    Containers = {main}
    Specs <- MCSpecs
    Usages <- MCUsages
    Name <- MCName
    Margin <- MCMargin
    TimeSpanSeconds = 3600
    EKSUnit = 2
    NodePrices <- MCNodePrices
    ClusterPriceModel <- MCClusterPriceModel
    BestEffortPod <- MCBestEffortPod
    OfNoNumber <- MCOfNoNumber
SPECIFICATION Spec
INVARIANTS IInv NobodyForgotten CoversOwnUsage RequestsWithinLimits CostsOrdered SameRequestsSameCost MovingNowhereIsFree
CHECK_DEADLOCK FALSE
