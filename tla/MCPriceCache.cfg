CONSTANTS
    i1 = i1  i2 = i2  small = small  large = large
    Instances <- MCInstances
    Offers <- MCOffers
    Prices = {1, 2}
    DefaultLimit = 1
    MaxChurn = 2
SPECIFICATION FairSpec
INVARIANTS IInv
PROPERTIES ImplementsFeed CacheConverges
CHECK_DEADLOCK FALSE
