CONSTANTS
    w1 = w1  w2 = w2  main = main  sidecar = sidecar  n1 = n1  n2 = n2
    NoData = NoData
    Workloads = {w1}
    Containers = {main, sidecar}
    Specs <- MCSpecs
    Usages <- MCUsages
    Name <- MCName
    Margin <- MCMargin
    TimeSpanSeconds = 7200
    EKSUnit = 2
    NodePrices <- MCNodePrices
    ClusterPriceModel <- MCClusterPriceModel
    BestEffortPod <- MCBestEffortPod
    OfNoNumber <- MCOfNoNumber
SPECIFICATION Spec
INVARIANTS SameRequestsSameCost
CHECK_DEADLOCK FALSE
