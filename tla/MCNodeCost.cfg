CONSTANTS
    CustomPricings <- MCCustomPricings
    Capacities <- MCCapacities
    CachedInstances <- MCCachedInstances
    PodSpecs <- MCPodSpecs
    PodCosts <- MCPodCosts
    Decimals = 100
SPECIFICATION PricingSpec
INVARIANTS PartsAddUp PartsKeepRatio GaugesAreNumbers
